---- MODULE Spec2Model ----
(***************************************************************************)
(* Model of the TSP optimisation core: the GA operator strategies          *)
(* (crossover, mutation, selection, succession), the GA engine             *)
(* (src/src/algorithms/genetic_algorithm.py), the ACS engine               *)
(* (src/src/algorithms/acs_algorithm.py) and the cost model                *)
(* (src/src/problems/tsp: parser, instance, problem).                      *)
(*                                                                         *)
(* Python lists are TLA+ sequences: the Python index i is position i + 1.  *)
(* Python floats are exact rationals <<num, den>> (den > 0, lowest terms); *)
(* tour costs are integers because evaluate() sums integer distances.      *)
(*                                                                         *)
(* The engines are modelled from the methods of GeneticAlgorithm and       *)
(* ACSAlgorithm.  Both derive from IAlgorithm and leave its abstract       *)
(* methods (initialize_population, evolve, get_best_solution, reset)       *)
(* undefined, so an engine object exists only where that is made good (a   *)
(* subclass, or the abstract-method set cleared); the state after          *)
(* construction below is what __init__ leaves in such an object.           *)
(***************************************************************************)
EXTENDS Integers, Sequences, FiniteSets, TLC

VARIABLES xo, ga, gapc, acs, acspc, tape, clock, tsp, op, runner, gen

vars == <<xo, ga, gapc, acs, acspc, tape, clock, tsp, op, runner, gen>>

(***************************************************************************)
(* Bounds of the model.                                                    *)
(***************************************************************************)
\* longest chromosome handed to the crossover operators on their own
MaxLen == 4
\* a raw draw of the seeded generator is one of 0 .. RawMax - 1
RawMax == 3
\* an engine's wall clock advances by 1 .. MaxTick seconds during one iteration
MaxTick == 2
\* run() is not called once the wall clock has passed MaxStart
MaxStart == 2
\* of two engines run side by side, one reads at most MaxLead draws that the
\* other has not read yet
MaxLead == 1
\* random.uniform(0, 1) of the selection operators is one of 0/Grid .. Grid/Grid
Grid == 4

(***************************************************************************)
(* Generic helpers.                                                        *)
(***************************************************************************)
Range(s) == {s[i] : i \in DOMAIN s}

Min(S) == CHOOSE x \in S : \A y \in S : x <= y

Max(S) == CHOOSE x \in S : \A y \in S : x >= y

\* Python's None in a List[Optional[int]]
NoneVal == -1

\* list.index(value): position of the first occurrence
Index(s, v) == Min({i \in DOMAIN s : s[i] = v})

\* all permutations of 0 .. n-1 as sequences of length n
Perms(n) == {p \in [1..n -> 0..(n - 1)] : \A i, j \in 1..n : p[i] = p[j] => i = j}

IsPermutation(s, n) ==
    /\ Len(s) = n
    /\ \A v \in 0..(n - 1) : Cardinality({i \in DOMAIN s : s[i] = v}) = 1

\* [x for x in child if x is not None]
DropNone(child) == SelectSeq(child, LAMBDA x : x # NoneVal)

(***************************************************************************)
(* Crossover operators.                                                    *)
(***************************************************************************)
\* ox with the "if x not in child" filter of the fill list left out
oxNoSkip(parent1, parent2, a, b) ==
    LET size == Len(parent1)
        child0 == [i \in 1..size |-> IF a < i /\ i <= b THEN parent1[i] ELSE NoneVal]
        fill == parent2
        child1 == [i \in 1..size |->
                     IF child0[i] = NoneVal
                     THEN fill[Cardinality({j \in 1..i : child0[j] = NoneVal})]
                     ELSE child0[i]]
    IN  DropNone(child1)

\* ox(parent1, parent2) of OrderCrossover.crossover with cut a < b
ox(parent1, parent2, a, b) ==
    LET size == Len(parent1)
        child0 == [i \in 1..size |-> IF a < i /\ i <= b THEN parent1[i] ELSE NoneVal]
        fill == SelectSeq(parent2, LAMBDA x : x \notin Range(child0))
        child1 == [i \in 1..size |->
                     IF child0[i] = NoneVal
                     THEN fill[Cardinality({j \in 1..i : child0[j] = NoneVal})]
                     ELSE child0[i]]
    IN  DropNone(child1)

\* a chase that takes the first slot of the mapping, empty or not
PMXChaseOnce(parent1, parent2, child, pos) == Index(parent2, parent1[pos])

\* the while True loop of pmx: chase parent2.index(parent1[pos]) to an empty slot
RECURSIVE PMXChase(_, _, _, _)
PMXChase(parent1, parent2, child, pos) ==
    LET idx == Index(parent2, parent1[pos])
    IN  IF child[idx] = NoneVal THEN idx ELSE PMXChase(parent1, parent2, child, idx)

\* the for i in range(a, b) loop of pmx, from position i on
RECURSIVE PMXLoop(_, _, _, _, _)
PMXLoop(parent1, parent2, child, i, b) ==
    IF i > b THEN child
    ELSE LET next == IF parent2[i] \notin Range(child)
                     THEN [child EXCEPT ![PMXChase(parent1, parent2, child, i)] = parent2[i]]
                     ELSE child
         IN  PMXLoop(parent1, parent2, next, i + 1, b)

\* pmx(parent1, parent2) of PartiallyMappedCrossover.crossover with cut a < b
pmx(parent1, parent2, a, b) ==
    LET size == Len(parent1)
        child0 == [i \in 1..size |-> IF a < i /\ i <= b THEN parent1[i] ELSE NoneVal]
        child1 == PMXLoop(parent1, parent2, child0, a + 1, b)
        child2 == [i \in 1..size |-> IF child1[i] = NoneVal THEN parent2[i] ELSE child1[i]]
    IN  DropNone(child2)

\* the indices of the cycle cx walks from `start`: idx -> parent1.index(parent2[idx])
RECURSIVE CXWalk(_, _, _, _, _)
CXWalk(parent1, parent2, start, idx, cycle_indices) ==
    IF idx = start THEN cycle_indices
    ELSE CXWalk(parent1, parent2, start, Index(parent1, parent2[idx]),
                cycle_indices \cup {idx})

CXCycle(parent1, parent2, start) ==
    CXWalk(parent1, parent2, start, Index(parent1, parent2[start]), {start})

\* the parent a discovered cycle is copied from: cx copies every cycle from parent1
CXSource(parent1, parent2, nth) == parent1

\* the while remaining loop of cx; remaining.pop() returns an arbitrary element,
\* so the result is the set of children over every pop order.  nth counts the
\* cycles discovered so far.
RECURSIVE CXFill(_, _, _, _, _)
CXFill(parent1, parent2, child, remaining, nth) ==
    IF remaining = {} THEN {child}
    ELSE UNION { LET cyc == CXCycle(parent1, parent2, start)
                     src == CXSource(parent1, parent2, nth)
                 IN  CXFill(parent1, parent2,
                            [i \in DOMAIN child |-> IF i \in cyc THEN src[i] ELSE child[i]],
                            remaining \ cyc, nth + 1)
                 : start \in remaining }

\* cx(parent1, parent2) of CycleCrossover.crossover: every child it can return
cx(parent1, parent2) ==
    LET size == Len(parent1)
        child0 == [i \in 1..size |-> NoneVal]
    IN  { DropNone([i \in 1..size |-> IF child[i] = NoneVal THEN parent2[i] ELSE child[i]])
          : child \in CXFill(parent1, parent2, child0, 1..size, 0) }

\* a, b = sorted(random.sample(range(size), 2)): two distinct indices, a < b
CutPoints(size) == {ab \in (0..(size - 1)) \X (0..(size - 1)) : ab[1] < ab[2]}

\* the pairs of children crossover(p1, p2) can return, per operator
Crossover(kind, p1, p2) ==
    CASE kind = "ox"  -> { <<ox(p1, p2, ab[1], ab[2]), ox(p2, p1, ab[1], ab[2])>>
                           : ab \in CutPoints(Len(p1)) }
      [] kind = "pmx" -> { <<pmx(p1, p2, ab[1], ab[2]), pmx(p2, p1, ab[1], ab[2])>>
                           : ab \in CutPoints(Len(p1)) }
      [] kind = "cx"  -> cx(p1, p2) \X cx(p2, p1)

CrossoverKinds == {"ox", "pmx", "cx"}

(***************************************************************************)
(* The crossover operators on their own: two parents are drawn, one        *)
(* operator is applied once.                                               *)
(***************************************************************************)
XoInit ==
    \E n \in 2..MaxLen : \E p1 \in Perms(n), p2 \in Perms(n) : \E kind \in CrossoverKinds :
        xo = [op |-> kind, p1 |-> p1, p2 |-> p2, a |-> 0, b |-> 0,
              c1 |-> <<>>, c2 |-> <<>>, done |-> FALSE]

ApplyOX ==
    /\ xo.op = "ox" /\ ~xo.done
    /\ \E ab \in CutPoints(Len(xo.p1)) :
         xo' = [xo EXCEPT !.a = ab[1], !.b = ab[2],
                          !.c1 = ox(xo.p1, xo.p2, ab[1], ab[2]),
                          !.c2 = ox(xo.p2, xo.p1, ab[1], ab[2]),
                          !.done = TRUE]
    /\ UNCHANGED <<ga, gapc, acs, acspc, tape, clock, tsp, op, runner, gen>>

ApplyPMX ==
    /\ xo.op = "pmx" /\ ~xo.done
    /\ \E ab \in CutPoints(Len(xo.p1)) :
         xo' = [xo EXCEPT !.a = ab[1], !.b = ab[2],
                          !.c1 = pmx(xo.p1, xo.p2, ab[1], ab[2]),
                          !.c2 = pmx(xo.p2, xo.p1, ab[1], ab[2]),
                          !.done = TRUE]
    /\ UNCHANGED <<ga, gapc, acs, acspc, tape, clock, tsp, op, runner, gen>>

ApplyCX ==
    /\ xo.op = "cx" /\ ~xo.done
    /\ \E c1 \in cx(xo.p1, xo.p2), c2 \in cx(xo.p2, xo.p1) :
         xo' = [xo EXCEPT !.c1 = c1, !.c2 = c2, !.done = TRUE]
    /\ UNCHANGED <<ga, gapc, acs, acspc, tape, clock, tsp, op, runner, gen>>

XoIdle == [op |-> "none", p1 |-> <<>>, p2 |-> <<>>, a |-> 0, b |-> 0,
           c1 |-> <<>>, c2 |-> <<>>, done |-> FALSE]

InitXover ==
    /\ XoInit
    /\ ga = <<>> /\ gapc = <<>> /\ acs = <<>> /\ acspc = <<>> /\ tape = <<>> /\ clock = <<>>
    /\ tsp = <<>> /\ op = <<>>
    /\ runner = <<>> /\ gen = <<>>

NextXover == ApplyOX \/ ApplyPMX \/ ApplyCX

SpecXover == InitXover /\ [][NextXover]_vars

(***************************************************************************)
(* Claims about the crossover operators.                                   *)
(***************************************************************************)
\* C4: for two permutations of the same elements (length >= 2) and any cut
\* a < b, each of OX, PMX and CX returns two children that have the parents'
\* length and hold every element exactly once.
C4_ChildrenArePermutations ==
    xo.done => /\ IsPermutation(xo.c1, Len(xo.p1))
               /\ IsPermutation(xo.c2, Len(xo.p2))

\* a PMX application in which the mapping chase had to place a value: the child
\* is a copy of neither parent
C4_Witness ==
    /\ xo.done /\ xo.op = "pmx" /\ Len(xo.p1) = MaxLen
    /\ xo.c1 # xo.p1 /\ xo.c1 # xo.p2
    /\ xo.c2 # xo.p1 /\ xo.c2 # xo.p2

\* the cycles of (p1, p2) and those on which the parents differ
CXCycles(p1, p2) == {CXCycle(p1, p2, s) : s \in DOMAIN p1}

CXDifferingCycles(p1, p2) == {cyc \in CXCycles(p1, p2) : \E i \in cyc : p1[i] # p2[i]}

\* C5: CX gives every index p1[i] or p2[i], takes all indices of one cycle
\* from the same parent and alternates the source parent between cycles, so
\* that c1 is no copy of p1 when the parents differ on at least two cycles.
C5_CXAlternatesParents ==
    (xo.done /\ xo.op = "cx") =>
        /\ \A i \in DOMAIN xo.p1 : xo.c1[i] \in {xo.p1[i], xo.p2[i]}
        /\ \A cyc \in CXCycles(xo.p1, xo.p2) :
              \/ \A i \in cyc : xo.c1[i] = xo.p1[i]
              \/ \A i \in cyc : xo.c1[i] = xo.p2[i]
        /\ Cardinality(CXDifferingCycles(xo.p1, xo.p2)) >= 2 => xo.c1 # xo.p1

(***************************************************************************)
(* Exact rationals standing for Python floats.                             *)
(***************************************************************************)
RECURSIVE GCD(_, _)
GCD(a, b) == IF b = 0 THEN a ELSE GCD(b, a % b)

Abs(x) == IF x < 0 THEN -x ELSE x

RNorm(n, d) ==
    LET g == GCD(Abs(n), Abs(d))
        sgn == IF d < 0 THEN -1 ELSE 1
    IN  <<(sgn * n) \div g, (sgn * d) \div g>>

RInt(n) == <<n, 1>>

RAdd(x, y) == RNorm(x[1] * y[2] + y[1] * x[2], x[2] * y[2])

RSub(x, y) == RNorm(x[1] * y[2] - y[1] * x[2], x[2] * y[2])

RMul(x, y) == RNorm(x[1] * y[1], x[2] * y[2])

RDiv(x, y) == RNorm(x[1] * y[2], x[2] * y[1])

RLe(x, y) == x[1] * y[2] <= y[1] * x[2]

RLt(x, y) == x[1] * y[2] < y[1] * x[2]

\* x ** k for an integer exponent k >= 0 (0.0 ** 0 is 1.0 in Python)
RECURSIVE RPow(_, _)
RPow(x, k) == IF k = 0 THEN RInt(1) ELSE RMul(x, RPow(x, k - 1))

RECURSIVE RSum(_)
RSum(s) == IF s = <<>> THEN RInt(0) ELSE RAdd(s[1], RSum(Tail(s)))

(***************************************************************************)
(* The cost model seen through IProblem: a dimension and a distance        *)
(* matrix (rows and columns are cities 0 .. n-1 at positions 1 .. n).      *)
(***************************************************************************)
\* one city: the only tour has cost 0
ProblemOne == [n |-> 1, dist |-> << <<0>> >>]

\* two cities
ProblemTwo == [n |-> 2, dist |-> << <<0, 1>>, <<1, 0>> >>]

\* three cities, FULL_MATRIX data that is not symmetric: the two tour
\* directions cost 3 and 6
ProblemAsym == [n |-> 3, dist |-> << <<0, 1, 2>>, <<2, 0, 1>>, <<1, 2, 0>> >>]

\* three cities, symmetric, with one edge of distance 0
ProblemZeroEdge == [n |-> 3, dist |-> << <<0, 0, 1>>, <<0, 0, 1>>, <<1, 1, 0>> >>]

get_distance(problem, i, j) == problem.dist[i + 1][j + 1]

\* evaluate without the edge from the last city back to the first
evaluateOpen(problem, solution) ==
    LET len == Len(solution)
        edge(k) == problem.dist[solution[k] + 1][solution[k + 1] + 1]
        sum[k \in 0..(len - 1)] == IF k = 0 THEN 0 ELSE sum[k - 1] + edge(k)
    IN  sum[len - 1]

\* TSPProblem.evaluate: the closed tour cost
evaluate(problem, solution) ==
    LET len == Len(solution)
        edge(k) == problem.dist[solution[k] + 1][solution[(k % len) + 1] + 1]
        sum[k \in 0..len] == IF k = 0 THEN 0 ELSE sum[k - 1] + edge(k)
    IN  sum[len]

\* float("inf"), the initial best_cost
Inf == 1000000

(***************************************************************************)
(* The seeded generator self._rng.  Engines built with the same seed read  *)
(* the same stream of raw draws: `tape` holds the draws some engine has    *)
(* read and another has not read yet, eng[i].ahead is how far engine i is  *)
(* into the tape.  A draw past the end of the tape is a fresh value.       *)
(***************************************************************************)
Raw == 0..(RawMax - 1)

\* what the next k draws of an engine that is `ahead` cells into the tape can be
\* draws of a generator that was not seeded: nothing ties them to the tape
DrawsUnseeded(ahead, k) == [1..k -> Raw]

Draws(ahead, k) ==
    {d \in [1..k -> Raw] : \A j \in 1..k : ahead + j <= Len(tape) => d[j] = tape[ahead + j]}

\* the tape extended by the first `used` draws of d, read from `ahead`
TapeExtended(ahead, d, used) ==
    IF ahead + used <= Len(tape) THEN tape
    ELSE tape \o SubSeq(d, Len(tape) - ahead + 1, used)

\* the engines whose run() is over: they read no more of their stream
Idle(pcs) == {j \in DOMAIN pcs : pcs[j] \in {"done", "error"}}

\* the cursor of engine j once engine i has read `used` draws
Cursor(eng, i, used, j) == IF j = i THEN eng[i].ahead + used ELSE eng[j].ahead

\* the cells every engine that still reads has read
Consumed(eng, idle, i, used) ==
    Min({Cursor(eng, i, used, j) : j \in (DOMAIN eng \ idle) \cup {i}})

\* engine i becomes rec and has read `used` draws of d; cells every reading
\* engine has read are dropped from the tape
EnginesAfter(eng, idle, i, rec, used) ==
    LET m == Consumed(eng, idle, i, used)
    IN  [j \in DOMAIN eng |->
            [(IF j = i THEN rec ELSE eng[j])
                EXCEPT !.ahead = Max({0, Cursor(eng, i, used, j) - m})]]

TapeAfter(eng, idle, i, d, used) ==
    LET m == Consumed(eng, idle, i, used)
        ext == TapeExtended(eng[i].ahead, d, used)
    IN  SubSeq(ext, m + 1, Len(ext))

\* rng.random(): a float in [0, 1)
RandomOf(raw) == RNorm(raw, RawMax)

\* rng.randrange(n) and the index rng.choice / rng.sample pick among n
RandBelow(raw, n) == raw % n

\* set -> ascending list: list(s) of a set of small ints in CPython
RECURSIVE SortedList(_)
SortedList(S) == IF S = {} THEN <<>> ELSE <<Min(S)>> \o SortedList(S \ {Min(S)})

\* now - (self._last_improvement_time or start): None and 0.0 are both falsy
OrStart(last_improvement_time, start) ==
    IF last_improvement_time = 0 THEN start ELSE last_improvement_time

(***************************************************************************)
(* ACS engine.                                                             *)
(***************************************************************************)
\* self._no_improvement_limit of ACSAlgorithm
ACSNoImprovementLimit == 2

ACSProblems == {ProblemOne, ProblemAsym, ProblemZeroEdge}

Half == <<1, 2>>

\* the configurations an ACS engine is built with
ACSConfigs ==
    [problem : ACSProblems, num_ants : {1, 2}, alpha : {1}, beta : {1},
     rho : {Half}, phi : {Half}, q0 : {Half}, max_time : {1, 3}]

\* ACSAlgorithm.__init__
ACSNew(cfg) ==
    [cfg |-> cfg, best_cost |-> Inf, history |-> <<>>,
     pheromone |-> <<>>, heuristic |-> <<>>, last_improvement_time |-> 0,
     start |-> 0, now |-> 0, routes |-> <<>>, costs |-> <<>>,
     route |-> <<>>, unvisited |-> {}, current |-> 0, ahead |-> 0, returned |-> <<>>]

\* _initialize_pheromone_and_heuristic
InitialPheromone(n) == [i \in 1..n |-> [j \in 1..n |-> RInt(1)]]

InitialHeuristic(problem) ==
    [i \in 1..problem.n |-> [j \in 1..problem.n |->
        IF i = j THEN RInt(0)
        ELSE LET d == get_distance(problem, i - 1, j - 1)
             IN  IF d > 0 THEN RNorm(1, d) ELSE RInt(0)]]

\* _update_best without its "if cost < self.best_cost" test
update_bestAlways(best_cost, last_improvement_time, cost, now) ==
    [best_cost |-> cost, last_improvement_time |-> now]

\* _update_best with <= in place of <
update_bestOrEqual(best_cost, last_improvement_time, cost, now) ==
    IF cost <= best_cost
    THEN [best_cost |-> cost, last_improvement_time |-> now]
    ELSE [best_cost |-> best_cost, last_improvement_time |-> last_improvement_time]

\* _update_best: [best_cost, last_improvement_time] after seeing cost at time now
update_best(best_cost, last_improvement_time, cost, now) ==
    IF cost < best_cost
    THEN [best_cost |-> cost, last_improvement_time |-> now]
    ELSE [best_cost |-> best_cost, last_improvement_time |-> last_improvement_time]

\* the desirability pheromone ** alpha * heuristic ** beta of the move current -> j
Weight(a, current, j) ==
    RMul(RPow(a.pheromone[current + 1][j + 1], a.cfg.alpha),
         RPow(a.heuristic[current + 1][j + 1], a.cfg.beta))

\* max(unvisited, key = ...): the first element of the list with the greatest key
ArgMax(a, current, unvisited) ==
    LET best(k) == \A m \in 1..Len(unvisited) :
                      RLe(Weight(a, current, unvisited[m]), Weight(a, current, unvisited[k]))
    IN  unvisited[Min({k \in 1..Len(unvisited) : best(k)})]

\* the inverse-CDF loop: the first j with r <= cum, unvisited[-1] when none is
Proportional(a, current, unvisited, r) ==
    LET weights == [k \in 1..Len(unvisited) |-> Weight(a, current, unvisited[k])]
        total == RSum(weights)
        cum(k) == RSum([m \in 1..k |-> RDiv(weights[m], total)])
        hits == {k \in 1..Len(unvisited) : RLe(r, cum(k))}
    IN  IF hits # {} THEN unvisited[Min(hits)] ELSE unvisited[Len(unvisited)]

\* a choice among all cities, visited or not
choose_next_cityAny(a, current, unvisited, d) ==
    [city |-> RandBelow(d[1], a.cfg.problem.n), used |-> 1]

\* _choose_next_city with the draws d: the city and the number of draws used
choose_next_city(a, current, unvisited, d) ==
    LET q == RandomOf(d[1])
        weights == [k \in 1..Len(unvisited) |-> Weight(a, current, unvisited[k])]
        total == RSum(weights)
    IN  IF RLe(q, a.cfg.q0)
        THEN [city |-> ArgMax(a, current, unvisited), used |-> 1]
        ELSE IF total = RInt(0)
        THEN [city |-> unvisited[RandBelow(d[2], Len(unvisited)) + 1], used |-> 2]
        ELSE [city |-> Proportional(a, current, unvisited, RandomOf(d[2])), used |-> 2]

\* _local_update(i, j): writes pheromone[i][j] only
local_update(pheromone, phi, i, j) ==
    [pheromone EXCEPT ![i + 1][j + 1] =
        RAdd(RMul(RSub(RInt(1), phi), pheromone[i + 1][j + 1]), RMul(phi, RInt(1)))]

\* the edge loop of _global_update from edge k on: both directions get `updated`
RECURSIVE GlobalEdges(_, _, _, _, _)
GlobalEdges(pheromone, rho, deposit, route, k) ==
    IF k > Len(route) THEN pheromone
    ELSE LET a == route[k] + 1
             b == route[(k % Len(route)) + 1] + 1
             updated == RAdd(RMul(RSub(RInt(1), rho), pheromone[a][b]), RMul(rho, deposit))
             one == [pheromone EXCEPT ![a][b] = updated]
         IN  GlobalEdges([one EXCEPT ![b][a] = updated], rho, deposit, route, k + 1)

\* a global update that stops at the last city: no edge back to the first
global_updateOpen(pheromone, rho, route, cost) ==
    GlobalEdges(pheromone, rho, RNorm(1, cost), SubSeq(route, 1, Len(route) - 1), 1)

\* _global_update(route, cost); 1.0 / cost raises ZeroDivisionError for cost 0
global_update(pheromone, rho, route, cost) ==
    GlobalEdges(pheromone, rho, RNorm(1, cost), route, 1)

\* min(range(len(costs)), key = costs.__getitem__): the first index of the least cost
FirstMinIndex(costs) == Min({k \in 1..Len(costs) : \A m \in 1..Len(costs) : costs[k] <= costs[m]})

\* the end of _build_route and the body of the ants loop after it: the route is
\* evaluated and collected
RouteBuilt(a, route, pheromone) ==
    LET routes == Append(a.routes, route)
    IN  [a EXCEPT !.routes = routes,
                  !.costs = Append(a.costs, evaluate(a.cfg.problem, route)),
                  !.pheromone = pheromone,
                  !.route = <<>>, !.unvisited = {}, !.current = 0]

\* for _ in range(self.num_ants): the next ant, or on to the iteration best
AfterRoute(a) == IF Len(a.routes) + 1 = a.cfg.num_ants THEN "global" ELSE "ant"

\* run() is called on a constructed or a returned engine: matrices are (re)built
\* and the timers set
ACSRun(i) ==
    /\ acspc[i] \in {"init", "done"}
    /\ clock[i] <= MaxStart
    /\ acs' = [acs EXCEPT ![i] =
                 [@ EXCEPT !.pheromone = InitialPheromone(acs[i].cfg.problem.n),
                           !.heuristic = InitialHeuristic(acs[i].cfg.problem),
                           !.start = clock[i],
                           !.last_improvement_time = clock[i]]]
    /\ acspc' = [acspc EXCEPT ![i] = "check"]
    /\ UNCHANGED <<xo, ga, gapc, tape, clock, tsp, op, runner, gen>>

ACSStop(a, now) ==
    \/ now - a.start >= a.cfg.max_time
    \/ now - OrStart(a.last_improvement_time, a.start) >= ACSNoImprovementLimit

\* the head of the while True loop: the clock is read and the stop condition
\* decided; `returned` records the length of the History each return handed out
ACSCheck(i) ==
    /\ acspc[i] = "check"
    /\ acs' = [acs EXCEPT ![i] =
                 IF ACSStop(acs[i], clock[i])
                 THEN [@ EXCEPT !.now = clock[i], !.routes = <<>>, !.costs = <<>>,
                                !.returned = Append(@, Len(acs[i].history))]
                 ELSE [@ EXCEPT !.now = clock[i], !.routes = <<>>, !.costs = <<>>]]
    /\ acspc' = [acspc EXCEPT ![i] = IF ACSStop(acs[i], clock[i]) THEN "done" ELSE "ant"]
    /\ UNCHANGED <<xo, ga, gapc, tape, clock, tsp, op, runner, gen>>

\* the start of _build_route: a random start city
ACSStartAnt(i) ==
    /\ acspc[i] = "ant"
    /\ \E d \in Draws(acs[i].ahead, 1) :
         LET a == acs[i]
             n == a.cfg.problem.n
             start == RandBelow(d[1], n)
             unvisited == (0..(n - 1)) \ {start}
             rec == IF unvisited = {}
                    THEN RouteBuilt(a, <<start>>, a.pheromone)
                    ELSE [a EXCEPT !.route = <<start>>, !.unvisited = unvisited,
                                   !.current = start]
         IN  /\ acs' = EnginesAfter(acs, Idle(acspc), i, rec, 1)
             /\ acspc' = [acspc EXCEPT ![i] = IF unvisited = {} THEN AfterRoute(a) ELSE "step"]
             /\ tape' = TapeAfter(acs, Idle(acspc), i, d, 1)
    /\ UNCHANGED <<xo, ga, gapc, clock, tsp, op, runner, gen>>

\* one pass of the while unvisited loop of _build_route
ACSStep(i) ==
    /\ acspc[i] = "step"
    /\ \E d \in Draws(acs[i].ahead, 2) :
         LET a == acs[i]
             pick == choose_next_city(a, a.current, SortedList(a.unvisited), d)
             nxt == pick.city
             pheromone == local_update(a.pheromone, a.cfg.phi, a.current, nxt)
             route == Append(a.route, nxt)
             unvisited == a.unvisited \ {nxt}
             rec == IF unvisited = {}
                    THEN RouteBuilt(a, route, pheromone)
                    ELSE [a EXCEPT !.route = route, !.unvisited = unvisited,
                                   !.current = nxt, !.pheromone = pheromone]
         IN  /\ acs' = EnginesAfter(acs, Idle(acspc), i, rec, pick.used)
             /\ acspc' = [acspc EXCEPT ![i] = IF unvisited = {} THEN AfterRoute(a) ELSE "step"]
             /\ tape' = TapeAfter(acs, Idle(acspc), i, d, pick.used)
    /\ UNCHANGED <<xo, ga, gapc, clock, tsp, op, runner, gen>>

\* after the ants: iteration best, _update_best, _global_update and the History
\* sample; the iteration took dt seconds of wall clock.  deposit = 1.0 / cost
\* raises ZeroDivisionError on a tour of cost 0
ACSGlobal(i) ==
    /\ acspc[i] = "global"
    /\ \E dt \in 1..MaxTick :
         LET a == acs[i]
             idx == FirstMinIndex(a.costs)
             iteration_best_route == a.routes[idx]
             iteration_best_cost == a.costs[idx]
             upd == update_best(a.best_cost, a.last_improvement_time,
                                iteration_best_cost, a.now)
             elapsed_ms == (clock[i] + dt - a.start) * 1000
         IN  /\ clock' = [clock EXCEPT ![i] = @ + dt]
             /\ acs' = [acs EXCEPT ![i] =
                   IF iteration_best_cost = 0
                   THEN [a EXCEPT !.best_cost = upd.best_cost,
                                  !.last_improvement_time = upd.last_improvement_time]
                   ELSE [a EXCEPT !.best_cost = upd.best_cost,
                                  !.last_improvement_time = upd.last_improvement_time,
                                  !.pheromone = global_update(a.pheromone, a.cfg.rho,
                                                   iteration_best_route, iteration_best_cost),
                                  !.history = Append(a.history, <<elapsed_ms, upd.best_cost>>)]]
             /\ acspc' = [acspc EXCEPT ![i] =
                            IF iteration_best_cost = 0 THEN "error" ELSE "check"]
    /\ UNCHANGED <<xo, ga, gapc, tape, tsp, op, runner, gen>>

\* one ACS engine
InitACS ==
    /\ \E cfg \in ACSConfigs : acs = <<ACSNew(cfg)>>
    /\ acspc = <<"init">>
    /\ xo = XoIdle /\ ga = <<>> /\ gapc = <<>> /\ tape = <<>> /\ clock = <<1>>
    /\ tsp = <<>> /\ op = <<>>
    /\ runner = <<>> /\ gen = <<>>

NextACS ==
    \/ \E i \in DOMAIN acs : ACSRun(i)
    \/ \E i \in DOMAIN acs : ACSCheck(i)
    \/ \E i \in DOMAIN acs : ACSStartAnt(i)
    \/ \E i \in DOMAIN acs : ACSStep(i)
    \/ \E i \in DOMAIN acs : ACSGlobal(i)

(***************************************************************************)
(* Mutation operators: i, j = random.sample(range(len(individual)), 2).    *)
(***************************************************************************)
\* _MIN_GENES of swap.py
MinGenes == 2

IndexPairs(len) == {ij \in (0..(len - 1)) \X (0..(len - 1)) : ij[1] # ij[2]}

\* SwapMutation.mutate with the drawn i, j
swap_mutate(individual, i, j) ==
    [individual EXCEPT ![i + 1] = individual[j + 1], ![j + 1] = individual[i + 1]]

\* insert mutation that inserts the gene at j before it removes it from i
insert_mutateShifted(individual, i, j) ==
    LET gene == individual[i + 1]
        grown == SubSeq(individual, 1, j) \o <<gene>> \o SubSeq(individual, j + 1, Len(individual))
        at == IF j <= i THEN i + 1 ELSE i
    IN  SubSeq(grown, 1, at) \o SubSeq(grown, at + 2, Len(grown))

\* InsertMutation.mutate with the drawn i, j: gene = pop(i); insert(j, gene)
insert_mutate(individual, i, j) ==
    LET gene == individual[i + 1]
        popped == SubSeq(individual, 1, i) \o SubSeq(individual, i + 2, Len(individual))
    IN  SubSeq(popped, 1, j) \o <<gene>> \o SubSeq(popped, j + 1, Len(popped))

\* every individual mutate(individual) can leave behind
Mutate(kind, individual) ==
    CASE kind = "swap" ->
           IF Len(individual) < MinGenes THEN {individual}
           ELSE {swap_mutate(individual, ij[1], ij[2]) : ij \in IndexPairs(Len(individual))}
      [] kind = "insert" ->
           {insert_mutate(individual, ij[1], ij[2]) : ij \in IndexPairs(Len(individual))}

MutationKinds == {"swap", "insert"}

(***************************************************************************)
(* Selection operators.  An individual is returned by its population slot. *)
(***************************************************************************)
\* int(x) of a non-negative float
IntOf(x) == x[1] \div x[2]

\* round(x): to the nearest integer, a tie to the even one
RoundOf(x) ==
    LET f == x[1] \div x[2]
        r == x[1] - f * x[2]
    IN  IF 2 * r < x[2] THEN f
        ELSE IF 2 * r > x[2] THEN f + 1
        ELSE IF f % 2 = 0 THEN f ELSE f + 1

\* the tournament size with round() in the place of int()
TournamentSizeRounded(len, rate) == Max({2, RoundOf(RMul(RInt(len), rate))})

\* k = max(2, int(len(population) * self.rate))
TournamentSize(len, rate) == Max({2, IntOf(RMul(RInt(len), rate))})

\* random.sample(seq, k) of the slots 1 .. len: k distinct slots in drawn order
Samples(len, k) == {s \in [1..k -> 1..len] : \A x, y \in 1..k : s[x] = s[y] => x = y}

\* a tournament won by its first participant
tournament_selectFirst(costs, participants) == participants[1]

\* min(participants, key = cost): the first participant of the least cost
tournament_select(costs, participants) ==
    participants[Min({x \in DOMAIN participants :
                        \A y \in DOMAIN participants :
                            costs[participants[x]] <= costs[participants[y]]})]

\* the cumulative scan shared by roulette and rank: the first slot of `order`
\* with r <= cumulative, the last one when there is none
CumulativePick(order, probabilities, r) ==
    LET cum(k) == RSum([m \in 1..k |-> probabilities[m]])
        hits == {k \in DOMAIN order : RLe(r, cum(k))}
    IN  IF hits # {} THEN order[Min(hits)] ELSE order[Len(order)]

\* RouletteSelection.select with the drawn r
roulette_select(costs, epsilon, r) ==
    LET fitness == [k \in DOMAIN costs |-> RDiv(RInt(1), RAdd(RInt(costs[k]), epsilon))]
        total_fitness == RSum(fitness)
        probabilities == [k \in DOMAIN costs |-> RDiv(fitness[k], total_fitness)]
    IN  CumulativePick([k \in DOMAIN costs |-> k], probabilities, r)

\* sorted(..., key = cost) is stable: slots in ascending cost, ties in slot order
RECURSIVE SortSlots(_, _)
SortSlots(costs, slots) ==
    IF slots = {} THEN <<>>
    ELSE LET least == Min({costs[k] : k \in slots})
             first == Min({k \in slots : costs[k] = least})
         IN  <<first>> \o SortSlots(costs, slots \ {first})

\* RankSelection.select with the drawn r
rank_select(costs, r) ==
    LET ranked == SortSlots(costs, DOMAIN costs)
        n == Len(ranked)
        ranks == [k \in 1..n |-> n - k + 1]
        total == RSum([k \in 1..n |-> RInt(ranks[k])])
        probabilities == [k \in 1..n |-> RDiv(RInt(ranks[k]), total)]
    IN  CumulativePick(ranked, probabilities, r)

\* r = random.uniform(0, 1)
Uniform01 == {RNorm(g, Grid) : g \in 0..Grid}

\* the population slots select(population, costs) can return
Select(sel, costs) ==
    CASE sel.name = "tournament" ->
           {tournament_select(costs, s)
              : s \in Samples(Len(costs), TournamentSize(Len(costs), sel.rate))}
      [] sel.name = "roulette" -> {roulette_select(costs, sel.epsilon, r) : r \in Uniform01}
      [] sel.name = "rank" -> {rank_select(costs, r) : r \in Uniform01}

(***************************************************************************)
(* Succession operators: the new population and its costs.                 *)
(***************************************************************************)
\* the succession count with round() in the place of int()
SuccessionCountRounded(rate, population_size) ==
    Max({1, RoundOf(RMul(rate, RInt(population_size)))})

\* max(1, int(rate * population_size))
SuccessionCount(rate, population_size) == Max({1, IntOf(RMul(rate, RInt(population_size)))})

\* s[:k]
Take(s, k) == SubSeq(s, 1, IF k < Len(s) THEN k ELSE Len(s))

\* the costs sorted, the individuals left in their slots
SortedPairsUnpaired(individuals, costs) ==
    LET order == SortSlots(costs, DOMAIN costs)
    IN  [k \in DOMAIN order |-> <<individuals[k], costs[order[k]]>>]

\* the (individual, cost) pairs of a list, sorted by cost
SortedPairs(individuals, costs) ==
    LET order == SortSlots(costs, DOMAIN costs)
    IN  [k \in DOMAIN order |-> <<individuals[order[k]], costs[order[k]]>>]

\* elitist succession that keeps every offspring next to the elites
elitist_replaceAllOffspring(elite_rate, parents, offspring, parent_costs, offspring_costs) ==
    LET elite_count == SuccessionCount(elite_rate, Len(parents))
        survivors == Take(SortedPairs(parents, parent_costs), elite_count)
                     \o SortedPairs(offspring, offspring_costs)
    IN  [population |-> [k \in DOMAIN survivors |-> survivors[k][1]],
         costs |-> [k \in DOMAIN survivors |-> survivors[k][2]]]

\* elitist succession that takes its elites from the head of the unsorted
\* parent list
elitist_replaceUnsorted(elite_rate, parents, offspring, parent_costs, offspring_costs) ==
    LET population_size == Len(parents)
        elite_count == SuccessionCount(elite_rate, population_size)
        elites == Take([k \in DOMAIN parents |-> <<parents[k], parent_costs[k]>>], elite_count)
        survivors == elites \o Take(SortedPairs(offspring, offspring_costs),
                                    population_size - elite_count)
    IN  [population |-> [k \in DOMAIN survivors |-> survivors[k][1]],
         costs |-> [k \in DOMAIN survivors |-> survivors[k][2]]]

\* ElitistSuccession.replace
elitist_replace(elite_rate, parents, offspring, parent_costs, offspring_costs) ==
    LET population_size == Len(parents)
        elite_count == SuccessionCount(elite_rate, population_size)
        elites == Take(SortedPairs(parents, parent_costs), elite_count)
        survivors == elites \o Take(SortedPairs(offspring, offspring_costs),
                                    population_size - elite_count)
    IN  [population |-> [k \in DOMAIN survivors |-> survivors[k][1]],
         costs |-> [k \in DOMAIN survivors |-> survivors[k][2]]]

\* steady-state succession with the two counts exchanged
steady_state_replaceSwapped(replacement_rate, parents, offspring, parent_costs, offspring_costs) ==
    LET population_size == Len(parents)
        replace_count == SuccessionCount(replacement_rate, population_size)
        survivors == Take(SortedPairs(parents, parent_costs), replace_count)
                     \o Take(SortedPairs(offspring, offspring_costs),
                             population_size - replace_count)
    IN  [population |-> [k \in DOMAIN survivors |-> survivors[k][1]],
         costs |-> [k \in DOMAIN survivors |-> survivors[k][2]]]

\* SteadyStateSuccession.replace
steady_state_replace(replacement_rate, parents, offspring, parent_costs, offspring_costs) ==
    LET population_size == Len(parents)
        replace_count == SuccessionCount(replacement_rate, population_size)
        survivors == Take(SortedPairs(parents, parent_costs), population_size - replace_count)
                     \o Take(SortedPairs(offspring, offspring_costs), replace_count)
    IN  [population |-> [k \in DOMAIN survivors |-> survivors[k][1]],
         costs |-> [k \in DOMAIN survivors |-> survivors[k][2]]]

Replace(succ, parents, offspring, parent_costs, offspring_costs) ==
    CASE succ.name = "elitist" ->
           elitist_replace(succ.rate, parents, offspring, parent_costs, offspring_costs)
      [] succ.name = "steady_state" ->
           steady_state_replace(succ.rate, parents, offspring, parent_costs, offspring_costs)

(***************************************************************************)
(* GA engine.                                                              *)
(***************************************************************************)
\* self._no_improvement_limit of GeneticAlgorithm
GANoImprovementLimit == 3

Selections ==
    {[name |-> "tournament", rate |-> Half, epsilon |-> RInt(0)],
     [name |-> "roulette", rate |-> RInt(0), epsilon |-> <<1, 8>>],
     [name |-> "rank", rate |-> RInt(0), epsilon |-> RInt(0)]}

Successions == [name : {"elitist", "steady_state"}, rate : {Half}]

\* the position of an operator name in its registry
SelectionNo(name) == CASE name = "tournament" -> 0 [] name = "roulette" -> 1 [] name = "rank" -> 2

CrossoverNo(name) == CASE name = "ox" -> 0 [] name = "pmx" -> 1 [] name = "cx" -> 2

\* short runs: every registered operator combination on two cities with an odd
\* population, and on three cities with an even population every selection with
\* every crossover, the mutation and the succession alternating over them
GAShortConfigs ==
    {c \in [problem : {ProblemTwo, ProblemAsym}, selection : Selections,
            crossover : CrossoverKinds, mutation : MutationKinds, succession : Successions,
            population_size : {2, 3}, crossover_rate : {Half}, mutation_rate : {Half},
            max_time : {1}] :
        LET no == SelectionNo(c.selection.name) + CrossoverNo(c.crossover)
        IN  \/ c.problem = ProblemTwo /\ c.population_size = 3
            \/ /\ c.problem = ProblemAsym /\ c.population_size = 2
               /\ (c.mutation = "swap") <=> (no % 2 = 0)
               /\ (c.succession.name = "elitist") <=> (no % 3 # 1)}

\* runs long enough to stop by stagnation
GALongConfigs ==
    [problem : {ProblemTwo, ProblemAsym},
     selection : {[name |-> "tournament", rate |-> Half, epsilon |-> RInt(0)]},
     crossover : {"ox"}, mutation : {"insert"},
     succession : {[name |-> "elitist", rate |-> Half]},
     population_size : {2}, crossover_rate : {Half}, mutation_rate : {Half},
     max_time : {4}]

GAConfigs == GAShortConfigs \cup GALongConfigs

\* GeneticAlgorithm.__init__
GANew(cfg) ==
    [cfg |-> cfg, best_cost |-> Inf, history |-> <<>>,
     last_improvement_time |-> 0, start |-> 0, now |-> 0,
     population |-> <<>>, costs |-> <<>>, offspring |-> <<>>,
     p1 |-> <<>>, p2 |-> <<>>, c1 |-> <<>>, c2 |-> <<>>, ahead |-> 0, returned |-> <<>>]

\* rng.sample(pool, k) with the draws d, from result position i on: the pool
\* entry picked is replaced by the last live entry
RECURSIVE SampleFrom(_, _, _, _)
SampleFrom(pool, d, i, k) ==
    IF i > k THEN <<>>
    ELSE LET live == Len(pool) - i + 1
             j == RandBelow(d[i], live) + 1
         IN  <<pool[j]>> \o SampleFrom([pool EXCEPT ![j] = pool[live]], d, i + 1, k)

\* self._sample(seq, k)
sample(seq, k, d) == SampleFrom(seq, d, 1, k)

\* problem.get_initial_solution()
get_initial_solution(problem) == [k \in 1..problem.n |-> k - 1]

\* _evaluate_population
evaluate_population(problem, population) ==
    [k \in DOMAIN population |-> evaluate(problem, population[k])]

\* self._random() < rate
Coin(raw, rate) == RLt(RandomOf(raw), rate)

\* run() is called on a constructed or a returned engine
GARun(i) ==
    /\ gapc[i] \in {"init", "done"}
    /\ clock[i] <= MaxStart
    /\ ga' = [ga EXCEPT ![i] = [@ EXCEPT !.start = clock[i],
                                         !.last_improvement_time = clock[i],
                                         !.population = <<>>]]
    /\ gapc' = [gapc EXCEPT ![i] = "populate"]
    /\ UNCHANGED <<xo, acs, acspc, tape, clock, tsp, op, runner, gen>>

\* one individual of _initialize_population; after the last one the population
\* is evaluated and the best cost seeded
GAPopulate(i) ==
    /\ gapc[i] = "populate"
    /\ LET g == ga[i]
           base == get_initial_solution(g.cfg.problem)
       IN  \E d \in Draws(g.ahead, Len(base)) :
             LET population == Append(g.population, sample(base, Len(base), d))
                 costs == evaluate_population(g.cfg.problem, population)
                 upd == update_best(g.best_cost, g.last_improvement_time,
                                    Min(Range(costs)), g.start)
                 rec == IF Len(population) < g.cfg.population_size
                        THEN [g EXCEPT !.population = population]
                        ELSE [g EXCEPT !.population = population, !.costs = costs,
                                       !.best_cost = upd.best_cost,
                                       !.last_improvement_time = upd.last_improvement_time]
             IN  /\ ga' = EnginesAfter(ga, Idle(gapc), i, rec, Len(base))
                 /\ gapc' = [gapc EXCEPT ![i] =
                                IF Len(population) < g.cfg.population_size
                                THEN "populate" ELSE "check"]
                 /\ tape' = TapeAfter(ga, Idle(gapc), i, d, Len(base))
    /\ UNCHANGED <<xo, acs, acspc, clock, tsp, op, runner, gen>>

GAStop(g, now) ==
    \/ now - g.start >= g.cfg.max_time
    \/ now - OrStart(g.last_improvement_time, g.start) >= GANoImprovementLimit

\* the head of the while True loop; population, costs and offspring are locals
\* of run() and are gone when it returns; `returned` records the length of the
\* History each return handed out
GACheck(i) ==
    /\ gapc[i] = "check"
    /\ ga' = [ga EXCEPT ![i] =
                IF GAStop(ga[i], clock[i])
                THEN [@ EXCEPT !.now = clock[i], !.population = <<>>, !.costs = <<>>,
                               !.offspring = <<>>,
                               !.returned = Append(@, Len(ga[i].history))]
                ELSE [@ EXCEPT !.now = clock[i], !.offspring = <<>>]]
    /\ gapc' = [gapc EXCEPT ![i] = IF GAStop(ga[i], clock[i]) THEN "done" ELSE "select"]
    /\ UNCHANGED <<xo, acs, acspc, tape, clock, tsp, op, runner, gen>>

\* p1 = select(...); p2 = select(...): the operators draw from the global
\* random module, not from the engine's generator
GASelect(i) ==
    /\ gapc[i] = "select"
    /\ \E s1 \in Select(ga[i].cfg.selection, ga[i].costs) :
         \E s2 \in Select(ga[i].cfg.selection, ga[i].costs) :
           ga' = [ga EXCEPT ![i] = [@ EXCEPT !.p1 = ga[i].population[s1],
                                             !.p2 = ga[i].population[s2]]]
    /\ gapc' = [gapc EXCEPT ![i] = "crossover"]
    /\ UNCHANGED <<xo, acs, acspc, tape, clock, tsp, op, runner, gen>>

\* if self._random() < self.crossover_rate: crossover, else copies of the parents
GACrossover(i) ==
    /\ gapc[i] = "crossover"
    /\ \E d \in Draws(ga[i].ahead, 1) :
         LET g == ga[i]
             children == IF Coin(d[1], g.cfg.crossover_rate)
                         THEN Crossover(g.cfg.crossover, g.p1, g.p2)
                         ELSE {<<g.p1, g.p2>>}
         IN  \E cc \in children :
               /\ ga' = EnginesAfter(ga, Idle(gapc), i, [g EXCEPT !.c1 = cc[1], !.c2 = cc[2]], 1)
               /\ tape' = TapeAfter(ga, Idle(gapc), i, d, 1)
    /\ gapc' = [gapc EXCEPT ![i] = "mutate1"]
    /\ UNCHANGED <<xo, acs, acspc, clock, tsp, op, runner, gen>>

\* if self._random() < self.mutation_rate: self.mutation.mutate(c1)
GAMutateFirst(i) ==
    /\ gapc[i] = "mutate1"
    /\ \E d \in Draws(ga[i].ahead, 1) :
         LET g == ga[i]
             mutated == IF Coin(d[1], g.cfg.mutation_rate)
                        THEN Mutate(g.cfg.mutation, g.c1) ELSE {g.c1}
         IN  \E c \in mutated :
               /\ ga' = EnginesAfter(ga, Idle(gapc), i, [g EXCEPT !.c1 = c], 1)
               /\ tape' = TapeAfter(ga, Idle(gapc), i, d, 1)
    /\ gapc' = [gapc EXCEPT ![i] = "mutate2"]
    /\ UNCHANGED <<xo, acs, acspc, clock, tsp, op, runner, gen>>

\* the second mutation, offspring.extend([c1, c2]) and the test of
\* while len(offspring) < population_size
GAMutateSecond(i) ==
    /\ gapc[i] = "mutate2"
    /\ \E d \in Draws(ga[i].ahead, 1) :
         LET g == ga[i]
             mutated == IF Coin(d[1], g.cfg.mutation_rate)
                        THEN Mutate(g.cfg.mutation, g.c2) ELSE {g.c2}
         IN  \E c \in mutated :
               LET offspring == g.offspring \o <<g.c1, c>>
                   rec == [g EXCEPT !.offspring = offspring,
                                    !.p1 = <<>>, !.p2 = <<>>, !.c1 = <<>>, !.c2 = <<>>]
               IN  /\ ga' = EnginesAfter(ga, Idle(gapc), i, rec, 1)
                   /\ gapc' = [gapc EXCEPT ![i] =
                                  IF Len(offspring) < g.cfg.population_size
                                  THEN "select" ELSE "replace"]
                   /\ tape' = TapeAfter(ga, Idle(gapc), i, d, 1)
    /\ UNCHANGED <<xo, acs, acspc, clock, tsp, op, runner, gen>>

\* evaluate and replace, _update_best and the History sample; the generation
\* took dt seconds of wall clock
GAReplace(i) ==
    /\ gapc[i] = "replace"
    /\ \E dt \in 1..MaxTick :
         LET g == ga[i]
             offspring_costs == evaluate_population(g.cfg.problem, g.offspring)
             new == Replace(g.cfg.succession, g.population, g.offspring,
                            g.costs, offspring_costs)
             current_best == Min(Range(new.costs))
             upd == update_best(g.best_cost, g.last_improvement_time, current_best, g.now)
             elapsed_ms == (clock[i] + dt - g.start) * 1000
         IN  /\ clock' = [clock EXCEPT ![i] = @ + dt]
             /\ ga' = [ga EXCEPT ![i] =
                   [g EXCEPT !.population = new.population, !.costs = new.costs,
                             !.offspring = <<>>,
                             !.best_cost = upd.best_cost,
                             !.last_improvement_time = upd.last_improvement_time,
                             !.history = Append(g.history, <<elapsed_ms, upd.best_cost>>)]]
    /\ gapc' = [gapc EXCEPT ![i] = "check"]
    /\ UNCHANGED <<xo, acs, acspc, tape, tsp, op, runner, gen>>

\* one GA engine
InitGA ==
    /\ \E cfg \in GAConfigs : ga = <<GANew(cfg)>>
    /\ gapc = <<"init">>
    /\ xo = XoIdle /\ acs = <<>> /\ acspc = <<>> /\ tape = <<>> /\ clock = <<1>>
    /\ tsp = <<>> /\ op = <<>>
    /\ runner = <<>> /\ gen = <<>>

NextGA ==
    \/ \E i \in DOMAIN ga : GARun(i)
    \/ \E i \in DOMAIN ga : GAPopulate(i)
    \/ \E i \in DOMAIN ga : GACheck(i)
    \/ \E i \in DOMAIN ga : GASelect(i)
    \/ \E i \in DOMAIN ga : GACrossover(i)
    \/ \E i \in DOMAIN ga : GAMutateFirst(i)
    \/ \E i \in DOMAIN ga : GAMutateSecond(i)
    \/ \E i \in DOMAIN ga : GAReplace(i)

(***************************************************************************)
(* One engine, GA or ACS, driven by a caller that may call run() again.    *)
(***************************************************************************)
Init == InitGA \/ InitACS

Next == NextGA \/ NextACS

Spec == Init /\ [][Next]_vars

(***************************************************************************)
(* Two engines built alike and run once each.  The process is single-     *)
(* threaded, so the two runs happen one after the other; they are laid     *)
(* side by side here, each on its own time line clock[i], both reading the *)
(* stream of the same seed.                                                *)
(***************************************************************************)
ACSFirstRun(i) == acspc[i] = "init" /\ ACSRun(i)

GAFirstRun(i) == gapc[i] = "init" /\ GARun(i)

ACSPairConfigs == {c \in ACSConfigs : c.problem.n = 3 /\ (c.num_ants = 1 \/ c.max_time = 1)}

InitACSPair ==
    /\ \E cfg \in ACSPairConfigs : acs = <<ACSNew(cfg), ACSNew(cfg)>>
    /\ acspc = <<"init", "init">>
    /\ xo = XoIdle /\ ga = <<>> /\ gapc = <<>> /\ tape = <<>> /\ clock = <<1, 1>>
    /\ tsp = <<>> /\ op = <<>>
    /\ runner = <<>> /\ gen = <<>>

NextACSPair ==
    \/ \E i \in DOMAIN acs : ACSFirstRun(i)
    \/ \E i \in DOMAIN acs : ACSCheck(i)
    \/ \E i \in DOMAIN acs : acs[i].ahead <= MaxLead /\ ACSStartAnt(i)
    \/ \E i \in DOMAIN acs : acs[i].ahead <= MaxLead /\ ACSStep(i)
    \/ \E i \in DOMAIN acs : ACSGlobal(i)

SpecACSPair == InitACSPair /\ [][NextACSPair]_vars

GAPairConfigs ==
    {c \in GAShortConfigs : /\ c.problem = ProblemAsym /\ c.selection.name = "tournament"
                            /\ c.crossover = "ox"}

InitGAPair ==
    /\ \E cfg \in GAPairConfigs : ga = <<GANew(cfg), GANew(cfg)>>
    /\ gapc = <<"init", "init">>
    /\ xo = XoIdle /\ acs = <<>> /\ acspc = <<>> /\ tape = <<>> /\ clock = <<1, 1>>
    /\ tsp = <<>> /\ op = <<>>
    /\ runner = <<>> /\ gen = <<>>

NextGAPair ==
    \/ \E i \in DOMAIN ga : GAFirstRun(i)
    \/ \E i \in DOMAIN ga : ga[i].ahead <= MaxLead /\ GAPopulate(i)
    \/ \E i \in DOMAIN ga : GACheck(i)
    \/ \E i \in DOMAIN ga : GASelect(i)
    \/ \E i \in DOMAIN ga : ga[i].ahead <= MaxLead /\ GACrossover(i)
    \/ \E i \in DOMAIN ga : ga[i].ahead <= MaxLead /\ GAMutateFirst(i)
    \/ \E i \in DOMAIN ga : ga[i].ahead <= MaxLead /\ GAMutateSecond(i)
    \/ \E i \in DOMAIN ga : GAReplace(i)

SpecGAPair == InitGAPair /\ [][NextGAPair]_vars

GAPositions == {"init", "populate", "check", "select", "crossover", "mutate1",
                "mutate2", "replace", "done"}

ACSPositions == {"init", "check", "ant", "step", "global", "done", "error"}

\* control of a run() in progress moves on to another program point
ControlMoves ==
    \/ \E i \in DOMAIN gapc :
          /\ gapc[i] \notin {"init", "done"}
          /\ \E p \in GAPositions \ {gapc[i]} : gapc' = [gapc EXCEPT ![i] = p]
          /\ UNCHANGED acspc
    \/ \E i \in DOMAIN acspc :
          /\ acspc[i] \notin {"init", "done", "error"}
          /\ \E p \in ACSPositions \ {acspc[i]} : acspc' = [acspc EXCEPT ![i] = p]
          /\ UNCHANGED gapc

\* run() is synchronous: once called it keeps executing until it returns or
\* raises; the caller is free to call run() or not
LiveSpec == Init /\ [][Next]_vars /\ WF_<<gapc, acspc>>(ControlMoves)

(***************************************************************************)
(* Claims about one engine.                                                *)
(***************************************************************************)
Symmetric(m) == \A i, j \in DOMAIN m : m[i][j] = m[j][i]

\* C1: during ACSAlgorithm.run the pheromone matrix is symmetric after every
\* local and every global pheromone update.
C1_PheromoneSymmetric == \A i \in DOMAIN acs : Symmetric(acs[i].pheromone)



IsPrefix(s, t) == Len(s) <= Len(t) /\ \A k \in DOMAIN s : s[k] = t[k]

NonIncreasing(history) ==
    \A k \in 1..(Len(history) - 1) : history[k + 1][2] <= history[k][2]

\* C3: for both engines History is append-only and its best-cost field is
\* non-increasing from one sample to the next.
C3_HistoryAppendOnlyNonIncreasing ==
    /\ [](/\ \A i \in DOMAIN ga : NonIncreasing(ga[i].history)
          /\ \A i \in DOMAIN acs : NonIncreasing(acs[i].history))
    /\ [][/\ \A i \in DOMAIN ga : IsPrefix(ga[i].history, ga'[i].history)
          /\ \A i \in DOMAIN acs : IsPrefix(acs[i].history, acs'[i].history)]_vars

\* a History whose second sample improved on the first
C3_Witness ==
    \/ \E i \in DOMAIN ga : Len(ga[i].history) >= 2
                            /\ ga[i].history[2][2] < ga[i].history[1][2]
    \/ \E i \in DOMAIN acs : Len(acs[i].history) >= 2
                             /\ acs[i].history[2][2] < acs[i].history[1][2]

GAInLoop(i) == gapc[i] \in {"check", "select", "crossover", "mutate1", "mutate2", "replace"}

\* C6: in GeneticAlgorithm.run the population at the start of every generation
\* holds exactly population_size individuals, each a permutation of 0 .. N-1.
C6_PopulationShape ==
    \A i \in DOMAIN ga :
        GAInLoop(i) =>
            /\ Len(ga[i].population) = ga[i].cfg.population_size
            /\ \A k \in DOMAIN ga[i].population :
                  IsPermutation(ga[i].population[k], ga[i].cfg.problem.n)

\* an odd population after a full select/crossover/mutate/replace cycle that
\* put a tour other than the initial one into it
C6_Witness ==
    \E i \in DOMAIN ga :
        /\ gapc[i] = "select" /\ ga[i].history # <<>>
        /\ ga[i].cfg.population_size = 3
        /\ \E k \in DOMAIN ga[i].population : ga[i].population[k] # <<0, 1>>

\* C7: every route _build_route returns has length N and holds each city
\* exactly once, and each city chosen on the way was unvisited.
C7_RoutesArePermutations ==
    \A i \in DOMAIN acs :
        LET a == acs[i]
            cities == 0..(a.cfg.problem.n - 1)
        IN  /\ \A k \in DOMAIN a.routes : IsPermutation(a.routes[k], a.cfg.problem.n)
            /\ acspc[i] = "step" =>
                  /\ Cardinality(Range(a.route)) = Len(a.route)
                  /\ Range(a.route) \cup a.unvisited = cities
                  /\ Range(a.route) \cap a.unvisited = {}

\* two ants have built their routes on three cities, one of them by a choice
\* other than the greedy one
C7_Witness ==
    \E i \in DOMAIN acs :
        /\ acspc[i] = "global" /\ acs[i].cfg.problem.n = 3
        /\ Len(acs[i].routes) = 2 /\ acs[i].routes[1] # acs[i].routes[2]

GAEvolving(i) == gapc[i] \in {"select", "crossover", "mutate1", "mutate2", "replace"}

ACSIterating(i) == acspc[i] \in {"ant", "step", "global"}

\* C9: once run() has returned on an engine, the engine never is in the
\* Evolving / Iterating state again and the History handed out gets no
\* further sample.
C9_SinglePass ==
    /\ \A i \in DOMAIN ga :
          ga[i].returned # <<>> =>
              ~GAEvolving(i) /\ Len(ga[i].history) = ga[i].returned[1]
    /\ \A i \in DOMAIN acs :
          acs[i].returned # <<>> =>
              ~ACSIterating(i) /\ Len(acs[i].history) = acs[i].returned[1]
Elapsed(e) == e.now - e.start

Stagnation(e) == e.now - e.last_improvement_time

StopConditionHolds ==
    /\ \A i \in DOMAIN ga :
          /\ GAEvolving(i) =>
                /\ Elapsed(ga[i]) < ga[i].cfg.max_time
                /\ Stagnation(ga[i]) < GANoImprovementLimit
          /\ gapc[i] = "done" =>
                \/ Elapsed(ga[i]) >= ga[i].cfg.max_time
                \/ Stagnation(ga[i]) >= GANoImprovementLimit
    /\ \A i \in DOMAIN acs :
          /\ ACSIterating(i) =>
                /\ Elapsed(acs[i]) < acs[i].cfg.max_time
                /\ Stagnation(acs[i]) < ACSNoImprovementLimit
          /\ acspc[i] = "done" =>
                \/ Elapsed(acs[i]) >= acs[i].cfg.max_time
                \/ Stagnation(acs[i]) >= ACSNoImprovementLimit

\* the stagnation timer moves only when run() starts or the best cost strictly improves
TimerMovesOnImprovement ==
    /\ \A i \in DOMAIN ga :
          ga'[i].last_improvement_time # ga[i].last_improvement_time =>
              gapc[i] \in {"init", "done"} \/ ga'[i].best_cost < ga[i].best_cost
    /\ \A i \in DOMAIN acs :
          acs'[i].last_improvement_time # acs[i].last_improvement_time =>
              acspc[i] \in {"init", "done"} \/ acs'[i].best_cost < acs[i].best_cost

GAPc == IF gapc = <<>> THEN "none" ELSE gapc[1]

ACSPc == IF acspc = <<>> THEN "none" ELSE acspc[1]

\* C10: with the clock advancing on every iteration run() eventually leaves
\* its loop; an iteration runs only if at the check elapsed < max_time and the
\* time since the last strict improvement < the stagnation limit; when run()
\* returns elapsed >= max_time or stagnation >= the limit; an iteration that
\* only equals the best cost leaves the stagnation timer alone.
C10_StopCondition ==
    /\ []StopConditionHolds
    /\ [][TimerMovesOnImprovement]_vars
    /\ (GAPc \in {"populate", "check", "select", "crossover", "mutate1", "mutate2", "replace"})
          ~> (GAPc = "done")
    /\ (ACSPc \in {"check", "ant", "step", "global"}) ~> (ACSPc \in {"done", "error"})

\* a run that stopped by stagnation before its time budget was used, after an
\* iteration that equalled the best cost
C10_Witness ==
    \/ \E i \in DOMAIN ga :
          /\ gapc[i] = "done" /\ Elapsed(ga[i]) < ga[i].cfg.max_time
          /\ Len(ga[i].history) >= 2
          /\ ga[i].history[Len(ga[i].history)][2] = ga[i].history[Len(ga[i].history) - 1][2]
    \/ \E i \in DOMAIN acs :
          /\ acspc[i] = "done" /\ Elapsed(acs[i]) < acs[i].cfg.max_time
          /\ Len(acs[i].history) >= 2
          /\ acs[i].history[Len(acs[i].history)][2] = acs[i].history[Len(acs[i].history) - 1][2]
SameBestCosts(h1, h2) ==
    \A k \in 1..Min({Len(h1), Len(h2)}) : h1[k][2] = h2[k][2]

\* C2: two GeneticAlgorithm instances built with the same problem, operators,
\* parameters and seed have the same best-cost sequence over the common
\* prefix of their generations, whatever the other random sources do.
C2_GADeterministic == Len(ga) = 2 => SameBestCosts(ga[1].history, ga[2].history)

\* C8: two ACSAlgorithm instances built with the same problem, parameters and
\* seed have the same best-cost sequence over the common prefix of their
\* iterations; the number of iterations and the timestamps may differ.
C8_ACSDeterministic == Len(acs) = 2 => SameBestCosts(acs[1].history, acs[2].history)

\* both engines have returned, one after more iterations than the other, and
\* their second samples carry different timestamps
C8_Witness ==
    /\ Len(acs) = 2 /\ acspc = <<"done", "done">>
    /\ Len(acs[1].history) >= 2 /\ Len(acs[2].history) > Len(acs[1].history)
    /\ acs[1].history[2][1] # acs[2].history[2][1]

(***************************************************************************)
(* The cost model: a TSPLIB file, the TSPParser that reads it, the         *)
(* TSPInstance that owns the parser, and the TSPProblem built over the     *)
(* instance (src/src/problems/tsp).                                        *)
(*                                                                         *)
(* A file is the record of what the parser extracts from its text: the     *)
(* header fields, whether a NODE_COORD_SECTION line is present, the usable *)
(* coordinate records and the integers of the EDGE_WEIGHT_SECTION.  The    *)
(* headers are well formed (NAME, TYPE, a positive DIMENSION and           *)
(* EDGE_WEIGHT_TYPE are present).                                          *)
(*                                                                         *)
(* distance_matrix attributes hold references to list objects: heap[r] is  *)
(* the content of list object r, and two attributes holding the same r     *)
(* share one list.  A list object that no attribute refers to is dropped.  *)
(***************************************************************************)
\* largest DIMENSION of a file
MaxDim == 3

CoordinateTypes == {"EUC_2D", "CEIL_2D", "ATT", "GEO"}

supported_types == CoordinateTypes \cup {"EXPLICIT"}

\* MAN_2D is an EDGE_WEIGHT_TYPE of TSPLIB that the parser does not support
EdgeWeightTypes == supported_types \cup {"MAN_2D"}

TriangularFormats == {"LOWER_DIAG_ROW", "LOWER_ROW", "UPPER_DIAG_ROW", "UPPER_ROW"}

load_methods == {"FULL_MATRIX"} \cup TriangularFormats

\* UPPER_COL is a TSPLIB format the parser does not support; "None" is a file
\* without an EDGE_WEIGHT_FORMAT line
EdgeWeightFormats == load_methods \cup {"UPPER_COL", "None"}

\* coordinate values of the files: whole degrees, so that the GEO formula
\* meets the cosine only at multiples of a quarter turn
CoordValues == {0, 90}

\* the cities of the files: three points, two of them on one meridian
Points == {p \in CoordValues \X CoordValues : p[1] <= p[2]}

\* the integers of an EDGE_WEIGHT_SECTION of k values: all 0, all 1, or a
\* single 1 at position p among zeros.  A loader takes every cell from one
\* position of the stream whatever the values are, so a value that lands in
\* a wrong cell shows with one of these.
Streams(k) ==
    {[i \in 1..k |-> IF i = p THEN 1 ELSE 0] : p \in 0..k} \cup {[i \in 1..k |-> 1]}

SeqsUpTo(S, n) == UNION {[1..k -> S] : k \in 0..n}

CoordinateFiles ==
    {[edge_weight_type |-> t, edge_weight_format |-> "None", dimension |-> n,
      node_coord_section |-> TRUE, coordinates |-> c, values |-> <<>>] :
        t \in EdgeWeightTypes \ {"EXPLICIT"}, n \in 1..MaxDim, c \in SeqsUpTo(Points, MaxDim)}

\* records beyond DIMENSION do not occur; fewer do, when malformed lines are
\* skipped
UsableCoordinateFiles == {f \in CoordinateFiles : Len(f.coordinates) <= f.dimension}

BareFiles ==
    {[edge_weight_type |-> t, edge_weight_format |-> "None", dimension |-> n,
      node_coord_section |-> FALSE, coordinates |-> <<>>, values |-> <<>>] :
        t \in EdgeWeightTypes \ {"EXPLICIT"}, n \in 1..MaxDim}

\* an EDGE_WEIGHT_SECTION holds no more integers than the format reads
StreamLength(format, n) == IF format = "FULL_MATRIX" THEN n * n ELSE (n * (n + 1)) \div 2

ExplicitFiles ==
    UNION {{[edge_weight_type |-> "EXPLICIT", edge_weight_format |-> fn[1], dimension |-> fn[2],
             node_coord_section |-> FALSE, coordinates |-> <<>>, values |-> v] :
               v \in UNION {Streams(k) : k \in 0..StreamLength(fn[1], fn[2])}} :
           fn \in EdgeWeightFormats \X (1..MaxDim)}

Files == UsableCoordinateFiles \cup BareFiles \cup ExplicitFiles

\* floor of the square root
RECURSIVE FloorSqrt(_)
FloorSqrt(s) ==
    IF s < 2 THEN s
    ELSE LET r == 2 * FloorSqrt(s \div 4)
         IN  IF (r + 1) * (r + 1) <= s THEN r + 1 ELSE r

SquaredDistance(c1, c2) == (c1[1] - c2[1]) * (c1[1] - c2[1]) + (c1[2] - c2[2]) * (c1[2] - c2[2])

\* int(math.sqrt(s) + 0.5)
euclidean(c1, c2) == (FloorSqrt(4 * SquaredDistance(c1, c2)) + 1) \div 2

\* math.ceil(math.sqrt(s))
ceil_euclidean(c1, c2) ==
    LET s == SquaredDistance(c1, c2)
        f == FloorSqrt(s)
    IN  IF f * f = s THEN f ELSE f + 1

\* rij = sqrt(s / 10.0); tij = int(rij + 0.5); tij + 1 if tij < rij else tij
att(c1, c2) ==
    LET s == SquaredDistance(c1, c2)
        tij == (FloorSqrt((4 * s) \div 10) + 1) \div 2
    IN  IF 10 * tij * tij < s THEN tij + 1 ELSE tij

\* math.cos at k quarter turns
QuarterCos(k) == CASE k % 4 = 0 -> 1 [] k % 4 = 2 -> -1 [] OTHER -> 0

\* int(6378.388 * math.acos(x) + 1.0) where x is h / 2
GeoArc(h) ==
    CASE h = 2 -> 1 [] h = 1 -> 6680 [] h = 0 -> 10020 [] h = -1 -> 13359 [] h = -2 -> 20039

\* to_radians of a whole number of degrees d is pi * d / 180
geographical(c1, c2) ==
    LET q1 == QuarterCos((c1[2] - c2[2]) \div 90)
        q2 == QuarterCos((c1[1] - c2[1]) \div 90)
        q3 == QuarterCos((c1[1] + c2[1]) \div 90)
    IN  GeoArc((1 + q1) * q2 - (1 - q1) * q3)

CoordinateDistance(type, c1, c2) ==
    CASE type = "EUC_2D" -> euclidean(c1, c2)
      [] type = "CEIL_2D" -> ceil_euclidean(c1, c2)
      [] type = "ATT" -> att(c1, c2)
      [] type = "GEO" -> geographical(c1, c2)

\* the four _calculate_* methods: zeros, then d stored at [i][j] and [j][i]
\* for every i < j
calculate(type, coordinates) ==
    LET n == Len(coordinates)
    IN  [i \in 1..n |-> [j \in 1..n |->
            IF i = j THEN 0
            ELSE CoordinateDistance(type, coordinates[Min({i, j})], coordinates[Max({i, j})])]]

\* values[i * n : (i + 1) * n] for i in range(n); a slice stops at the end of
\* the list
load_full_matrix(values, n) ==
    [i \in 1..n |-> SubSeq(values, Min({(i - 1) * n, Len(values)}) + 1, Min({i * n, Len(values)}))]

\* the cells row i of the named triangle visits, in loop order
RowCells(i, n, lower, diag) ==
    LET lo == IF lower THEN 0 ELSE IF diag THEN i ELSE i + 1
        hi == IF lower THEN (IF diag THEN i ELSE i - 1) ELSE n - 1
    IN  [k \in 1..(hi - lo + 1) |-> <<i, lo + k - 1>>]

RECURSIVE CellsFrom(_, _, _, _)
CellsFrom(i, n, lower, diag) ==
    IF i >= n THEN <<>> ELSE RowCells(i, n, lower, diag) \o CellsFrom(i + 1, n, lower, diag)

\* load_triangular that walks the triangle column by column
load_triangularColumnMajor(values, n, lower, diag) ==
    LET cells == CellsFrom(0, n, ~lower, diag)
        used == Min({Len(cells), Len(values)})
        at(i, j) == {k \in 1..used : cells[k] = <<i, j>> \/ cells[k] = <<j, i>>}
    IN  [i \in 1..n |-> [j \in 1..n |->
            IF at(i - 1, j - 1) = {} THEN 0 ELSE values[Max(at(i - 1, j - 1))]]]

\* zeros, then the k-th visited cell (i, j) takes values[k] at [i][j] and
\* [j][i] while values last
load_triangular(values, n, lower, diag) ==
    LET cells == CellsFrom(0, n, lower, diag)
        used == Min({Len(cells), Len(values)})
        at(i, j) == {k \in 1..used : cells[k] = <<i, j>> \/ cells[k] = <<j, i>>}
    IN  [i \in 1..n |-> [j \in 1..n |->
            IF at(i - 1, j - 1) = {} THEN 0 ELSE values[Max(at(i - 1, j - 1))]]]

\* the list objects that can hold a distance matrix
Refs == 1..3

Raise(t, e) == [t EXCEPT !.raised = e]

\* drop the list objects no attribute refers to
Collect(t) ==
    [t EXCEPT !.heap = [r \in Refs |->
        IF r \in {t.parser.distance_matrix, t.instance.distance_matrix} THEN t.heap[r] ELSE <<>>]]

\* self.distance_matrix = <a new list m> in the parser
Rebind(t, m) ==
    LET r == Min(Refs \ {t.parser.distance_matrix, t.instance.distance_matrix})
    IN  Collect([t EXCEPT !.heap[r] = m, !.parser.distance_matrix = r])

\* TSPParser._load_explicit_weights: the list the parser holds is cleared in
\* place, then a new matrix is bound
load_explicit_weights(t) ==
    LET cleared == [t EXCEPT !.heap[t.parser.distance_matrix] = <<>>]
        values == t.file.values
        dimension == t.file.dimension
        format == t.parser.edge_weight_format
    IN  IF values = <<>> THEN Raise(cleared, "ValueError")
        ELSE IF format \notin load_methods THEN Raise(cleared, "ValueError")
        ELSE Rebind(cleared,
                CASE format = "FULL_MATRIX" -> load_full_matrix(values, dimension)
                  [] format = "LOWER_DIAG_ROW" -> load_triangular(values, dimension, TRUE, TRUE)
                  [] format = "LOWER_ROW" -> load_triangular(values, dimension, TRUE, FALSE)
                  [] format = "UPPER_DIAG_ROW" -> load_triangular(values, dimension, FALSE, TRUE)
                  [] format = "UPPER_ROW" -> load_triangular(values, dimension, FALSE, FALSE))

\* TSPParser._load_coordinates: the parser's one coordinate list is cleared
\* and filled again
load_coordinates(t) == [t EXCEPT !.parser.coordinates = t.file.coordinates]

\* TSPParser.validate_file
validate_file(t) ==
    LET read == [t EXCEPT !.parser.content = TRUE,
                          !.parser.edge_weight_type = t.file.edge_weight_type,
                          !.parser.edge_weight_format = t.file.edge_weight_format]
    IN  IF read.parser.edge_weight_type \notin supported_types THEN Raise(read, "ValueError")
        ELSE IF read.parser.edge_weight_type = "EXPLICIT" THEN load_explicit_weights(read)
        ELSE IF t.file.node_coord_section THEN load_coordinates(read)
        ELSE Raise(read, "ValueError")

\* TSPParser.generate_distance_matrix
generate_distance_matrix(t) ==
    LET type == t.parser.edge_weight_type
    IN  IF t.parser.coordinates = <<>> /\ type # "EXPLICIT" THEN t
        ELSE IF type \in CoordinateTypes THEN Rebind(t, calculate(type, t.parser.coordinates))
        ELSE IF type = "EXPLICIT" THEN t
        ELSE Raise(t, "ValueError")

\* TSPInstance.load_distance_matrix; TSPParser.get_distance_matrix hands out
\* the parser's list itself
load_distance_matrix(t) ==
    IF ~t.instance.has_loaded
    THEN LET g == generate_distance_matrix(t)
         IN  IF g.raised # "None" THEN g
             ELSE Collect([g EXCEPT !.instance.distance_matrix = g.parser.distance_matrix,
                                    !.instance.has_loaded = TRUE])
    ELSE t

\* TSPInstance.load_metadata (the optimal result and the display coordinates
\* do not touch the cost model)
load_metadata(t) ==
    LET v == validate_file(t)
        m == [v EXCEPT !.instance.dimension = t.file.dimension,
                       !.instance.edge_weight_type = v.parser.edge_weight_type,
                       !.instance.edge_weight_format = v.parser.edge_weight_format]
    IN  IF v.raised # "None" THEN v
        ELSE IF m.instance.edge_weight_type # "EXPLICIT"
             THEN [m EXCEPT !.instance.coordinates = "parser"]
             ELSE load_distance_matrix(m)

\* TSPInstance.get_distance_matrix: <<the matrix>>, or <<>> for the None it
\* returns before the matrix is loaded
get_distance_matrix(t) ==
    IF t.instance.has_loaded THEN <<t.heap[t.instance.distance_matrix]>> ELSE <<>>

\* TSPProblem.__init__
TSPProblem(t) ==
    LET m == load_metadata(t)
        d == IF ~m.instance.has_loaded THEN load_distance_matrix(m) ELSE m
    IN  IF m.raised # "None" THEN m
        ELSE IF d.raised # "None" THEN d
        ELSE [d EXCEPT !.problem = TRUE]

\* TSPInstance.__init__ with the TSPParser() it creates: the parser and the
\* instance each start with an empty list of their own
TSPNew(file) ==
    [file |-> file,
     heap |-> [r \in Refs |-> <<>>],
     parser |-> [content |-> FALSE, coordinates |-> <<>>, distance_matrix |-> 1,
                 edge_weight_type |-> "None", edge_weight_format |-> "None"],
     instance |-> [dimension |-> NoneVal, edge_weight_type |-> "None",
                   edge_weight_format |-> "None", coordinates |-> "own",
                   distance_matrix |-> 2, has_loaded |-> FALSE],
     problem |-> FALSE,
     last |-> "new", solution |-> <<>>, raised |-> "None", returned |-> <<>>]

\* a call: its name, its argument, no exception yet, nothing returned yet
\* (returned is <<value>> once the call returns a value that is not None)
Call(t, name) ==
    [t EXCEPT !.last = name, !.solution = <<>>, !.raised = "None", !.returned = <<>>]

TSPLoadMetadata ==
    /\ tsp' = load_metadata(Call(tsp, "load_metadata"))
    /\ UNCHANGED <<xo, ga, gapc, acs, acspc, tape, clock, op, runner, gen>>

TSPLoadDistanceMatrix ==
    /\ tsp' = load_distance_matrix(Call(tsp, "load_distance_matrix"))
    /\ UNCHANGED <<xo, ga, gapc, acs, acspc, tape, clock, op, runner, gen>>

TSPGetDistanceMatrix ==
    /\ tsp' = [Call(tsp, "get_distance_matrix") EXCEPT !.returned = get_distance_matrix(tsp)]
    /\ UNCHANGED <<xo, ga, gapc, acs, acspc, tape, clock, op, runner, gen>>

TSPConstruct ==
    /\ tsp' = TSPProblem(Call(tsp, "TSPProblem"))
    /\ UNCHANGED <<xo, ga, gapc, acs, acspc, tape, clock, op, runner, gen>>

\* dist[a][b] of every edge of the closed tour is inside the matrix
EdgesInside(dist, solution) ==
    \A k \in 1..Len(solution) :
        /\ solution[k] + 1 <= Len(dist)
        /\ solution[(k % Len(solution)) + 1] + 1 <= Len(dist[solution[k] + 1])

\* TSPProblem.evaluate on a tour of the instance's dimension
TSPEvaluate ==
    /\ tsp.problem
    /\ \E solution \in Perms(tsp.instance.dimension) :
         LET c == [Call(tsp, "evaluate") EXCEPT !.solution = solution]
             dist == get_distance_matrix(tsp)
         IN  tsp' = IF dist = <<>> \/ dist[1] = <<>> THEN Raise(c, "RuntimeError")
                    ELSE IF ~EdgesInside(dist[1], solution) THEN Raise(c, "IndexError")
                    ELSE [c EXCEPT !.returned = <<evaluate([dist |-> dist[1]], solution)>>]
    /\ UNCHANGED <<xo, ga, gapc, acs, acspc, tape, clock, op, runner, gen>>

InitTSP ==
    /\ \E file \in Files : tsp = TSPNew(file)
    /\ xo = XoIdle /\ ga = <<>> /\ gapc = <<>> /\ acs = <<>> /\ acspc = <<>>
    /\ tape = <<>> /\ clock = <<>> /\ op = <<>>
    /\ runner = <<>> /\ gen = <<>>

NextTSP ==
    \/ TSPLoadMetadata
    \/ TSPLoadDistanceMatrix
    \/ TSPGetDistanceMatrix
    \/ TSPConstruct
    \/ TSPEvaluate

SpecTSP == InitTSP /\ [][NextTSP]_vars

(***************************************************************************)
(* Claims about the cost model.                                            *)
(***************************************************************************)
\* the content of the list the instance's distance_matrix attribute refers to
InstanceMatrix(t) == t.heap[t.instance.distance_matrix]

\* C11: once has_loaded is true, no call of load_metadata,
\* load_distance_matrix, get_distance_matrix, TSPProblem(instance) or evaluate
\* changes the content of the instance's distance matrix, and has_loaded
\* stays true.
C11_MatrixReadOnly ==
    [][tsp.instance.has_loaded =>
          /\ tsp'.instance.has_loaded
          /\ InstanceMatrix(tsp') = InstanceMatrix(tsp)]_vars

\* the file names an encoding or an explicit sub-format the parser does not
\* know, or lacks the data its encoding needs
Unbuildable(file) ==
    \/ file.edge_weight_type \notin supported_types
    \/ /\ file.edge_weight_type = "EXPLICIT"
       /\ file.edge_weight_format \notin load_methods \/ file.values = <<>>
    \/ /\ file.edge_weight_type \in CoordinateTypes
       /\ file.coordinates = <<>>

\* C12: over a file whose encoding or explicit sub-format is unrecognized, or
\* that has no usable coordinate records (coordinate encoding) or no weight
\* values (EXPLICIT), TSPProblem(instance) raises and no problem object is
\* ever built.
C12_ConstructionFails ==
    Unbuildable(tsp.file) =>
        /\ ~tsp.problem
        /\ tsp.last = "TSPProblem" => tsp.raised # "None"

\* C13: the distance matrix of every built instance is symmetric with a zero
\* diagonal: wherever D[i][j] and D[j][i] both exist they are equal, and
\* D[i][i] is 0.
C13_SymmetricZeroDiagonal ==
    tsp.problem =>
        LET D == InstanceMatrix(tsp)
        IN  \A i, j \in DOMAIN D :
                j \in DOMAIN D[i] /\ i \in DOMAIN D[j] =>
                    /\ D[i][j] = D[j][i]
                    /\ i = j => D[i][j] = 0

\* the edges of the closed tour: each city to the next, the last to the first
ClosedEdges(tour) ==
    [k \in DOMAIN tour |-> <<tour[k], tour[IF k = Len(tour) THEN 1 ELSE k + 1]>>]

RECURSIVE EdgeSum(_, _)
EdgeSum(D, edges) ==
    IF edges = <<>> THEN 0
    ELSE D[edges[1][1] + 1][edges[1][2] + 1] + EdgeSum(D, Tail(edges))

\* an N x N matrix whose off-diagonal entries are all 1
UnitOffDiagonal(D, N) ==
    /\ Len(D) = N
    /\ \A i \in 1..N : Len(D[i]) = N
    /\ \A i, j \in 1..N : i # j => D[i][j] = 1

\* evaluate has returned a cost
Evaluated == tsp.last = "evaluate" /\ tsp.raised = "None"

\* C14: the value evaluate(tour) returns is the closed-loop cost, the sum of
\* D[tour[k]][tour[(k+1) mod len]] over all k with the edge from the last
\* city back to the first; on an instance of N >= 2 cities whose off-diagonal
\* distances are all 1 it is N for every permutation.
C14_EvaluateClosedLoop ==
    Evaluated =>
        LET D == InstanceMatrix(tsp)
            N == Len(tsp.solution)
        IN  /\ tsp.returned = <<EdgeSum(D, ClosedEdges(tsp.solution))>>
            /\ N >= 2 /\ UnitOffDiagonal(D, N) => tsp.returned = <<N>>

\* evaluate has returned 3 for a tour of three cities, two of whose edges
\* have distance 1 and whose closing edge has distance 1
C14_Witness ==
    /\ Evaluated
    /\ Len(tsp.solution) = 3
    /\ UnitOffDiagonal(InstanceMatrix(tsp), 3)
    /\ tsp.returned = <<3>>

\* C14 as stated, for every N: on an instance whose off-diagonal distances
\* are all 1, evaluate returns N for every permutation of N cities.
C14_UnitCostEveryN ==
    Evaluated =>
        LET D == InstanceMatrix(tsp)
            N == Len(tsp.solution)
        IN  /\ tsp.returned = <<EdgeSum(D, ClosedEdges(tsp.solution))>>
            /\ UnitOffDiagonal(D, N) => tsp.returned = <<N>>

LowerFormat(format) == format \in {"LOWER_ROW", "LOWER_DIAG_ROW"}

DiagFormat(format) == format \in {"LOWER_DIAG_ROW", "UPPER_DIAG_ROW"}

\* cell (i, j) lies in the triangle the format names (cities count from 0)
InTriangle(format, i, j) ==
    CASE format = "LOWER_ROW" -> j < i
      [] format = "LOWER_DIAG_ROW" -> j <= i
      [] format = "UPPER_ROW" -> j > i
      [] format = "UPPER_DIAG_ROW" -> j >= i

\* n(n-1)/2 values without the diagonal, n(n+1)/2 with it
ExpectedLength(format, n) ==
    IF DiagFormat(format) THEN (n * (n + 1)) \div 2 ELSE (n * (n - 1)) \div 2

\* position in the stream of cell (i, j) when the triangle is written row by
\* row (the first value has position 1)
RowMajorPosition(format, n, i, j) ==
    CASE format = "LOWER_ROW" -> (i * (i - 1)) \div 2 + j + 1
      [] format = "LOWER_DIAG_ROW" -> (i * (i + 1)) \div 2 + j + 1
      [] format = "UPPER_ROW" -> i * (n - 1) - (i * (i - 1)) \div 2 + (j - i - 1) + 1
      [] format = "UPPER_DIAG_ROW" -> i * n - (i * (i - 1)) \div 2 + (j - i) + 1

\* D is the n x n matrix that holds each value of the row-major stream at its
\* cell and at the mirrored cell, and 0 on the diagonal when the stream has
\* no diagonal entries
MirroredTriangle(D, format, n, values) ==
    /\ Len(D) = n
    /\ \A i \in 1..n : Len(D[i]) = n
    /\ \A i, j \in 0..(n - 1) :
           InTriangle(format, i, j) =>
               /\ D[i + 1][j + 1] = values[RowMajorPosition(format, n, i, j)]
               /\ D[j + 1][i + 1] = values[RowMajorPosition(format, n, i, j)]
    /\ ~DiagFormat(format) => \A i \in 1..n : D[i][i] = 0

\* the file names a triangular sub-format and its stream has exactly the
\* expected length
ExactTriangularFile(file) ==
    /\ file.edge_weight_type = "EXPLICIT"
    /\ file.edge_weight_format \in TriangularFormats
    /\ Len(file.values) = ExpectedLength(file.edge_weight_format, file.dimension)

\* the parser has read the file and bound the matrix it loaded
ParserLoaded ==
    /\ tsp.parser.content
    /\ tsp.last \in {"load_metadata", "TSPProblem"}
    /\ tsp.raised = "None"

\* C15: for each triangular sub-format and dimension n, from a stream of
\* exactly the expected length the loader builds the n x n matrix that holds
\* the k-th value of the stream at the k-th cell (i, j) of the named triangle
\* in row-major order and at (j, i); without DIAG the diagonal is 0.
C15_TriangularLoader ==
    ExactTriangularFile(tsp.file) =>
        LET format == tsp.file.edge_weight_format
            n == tsp.file.dimension
            values == tsp.file.values
        IN  /\ MirroredTriangle(
                   load_triangular(values, n, LowerFormat(format), DiagFormat(format)),
                   format, n, values)
            /\ ParserLoaded =>
                   MirroredTriangle(tsp.heap[tsp.parser.distance_matrix], format, n, values)

\* the parser has loaded an UPPER_DIAG_ROW stream of three cities whose third
\* value, the one of cell (0, 2), is the only 1
C15_Witness ==
    /\ ExactTriangularFile(tsp.file)
    /\ ParserLoaded
    /\ tsp.file.edge_weight_format = "UPPER_DIAG_ROW"
    /\ tsp.file.values = <<0, 0, 1, 0, 0, 0>>
    /\ tsp.heap[tsp.parser.distance_matrix] = << <<0, 0, 1>>, <<0, 0, 0>>, <<1, 0, 0>> >>

(***************************************************************************)
(* The selection and succession operators on their own: the arguments of   *)
(* one call are drawn, the operator is applied once.  Individuals are the  *)
(* one-gene lists [0], [1], ... of the operator tests, so that every       *)
(* individual can be told from every other.                                *)
(***************************************************************************)
\* largest population handed to an operator on its own
MaxPop == 3
\* the rates of the operators are 1/RateGrid .. RateGrid/RateGrid
RateGrid == 8

\* the valid rates: the constructors reject a rate outside (0, 1]
Rates == {RNorm(g, RateGrid) : g \in 1..RateGrid}

CostValues == {1, 2, 3}

\* [[first], [first + 1], ...]: n individuals
Individuals(first, n) == [k \in 1..n |-> <<first + k - 1>>]

OpNew(name, rate, n, parent_costs, offspring_costs) ==
    [name |-> name, rate |-> rate,
     parents |-> Individuals(0, n), parent_costs |-> parent_costs,
     offspring |-> Individuals(n, Len(offspring_costs)), offspring_costs |-> offspring_costs,
     k |-> 0, participants |-> <<>>, winner |-> <<>>,
     population |-> <<>>, costs |-> <<>>, done |-> FALSE]

\* TournamentSelection(rate).select(population, costs) on a population of at
\* least two
TournamentInit ==
    \E n \in 2..MaxPop : \E rate \in Rates : \E costs \in [1..n -> CostValues] :
        op = OpNew("tournament", rate, n, costs, <<>>)

\* a succession operator's replace(parents, offspring, parent_costs,
\* offspring_costs) on N parents and N offspring
SuccessionInit ==
    \E name \in {"elitist", "steady_state"} : \E n \in 1..MaxPop : \E rate \in Rates :
        \E parent_costs \in [1..n -> CostValues], offspring_costs \in [1..n -> CostValues] :
            op = OpNew(name, rate, n, parent_costs, offspring_costs)

OpCount(o) ==
    IF o.name = "tournament" THEN TournamentSize(Len(o.parents), o.rate)
    ELSE SuccessionCount(o.rate, Len(o.parents))

ApplyTournament ==
    /\ op.name = "tournament" /\ ~op.done
    /\ \E participants \in Samples(Len(op.parents), OpCount(op)) :
         op' = [op EXCEPT !.k = OpCount(op),
                          !.participants = participants,
                          !.winner = op.parents[tournament_select(op.parent_costs, participants)],
                          !.done = TRUE]
    /\ UNCHANGED <<xo, ga, gapc, acs, acspc, tape, clock, tsp, runner, gen>>

ApplyElitist ==
    /\ op.name = "elitist" /\ ~op.done
    /\ LET new == elitist_replace(op.rate, op.parents, op.offspring,
                                  op.parent_costs, op.offspring_costs)
       IN  op' = [op EXCEPT !.k = OpCount(op), !.population = new.population,
                            !.costs = new.costs, !.done = TRUE]
    /\ UNCHANGED <<xo, ga, gapc, acs, acspc, tape, clock, tsp, runner, gen>>

ApplySteadyState ==
    /\ op.name = "steady_state" /\ ~op.done
    /\ LET new == steady_state_replace(op.rate, op.parents, op.offspring,
                                       op.parent_costs, op.offspring_costs)
       IN  op' = [op EXCEPT !.k = OpCount(op), !.population = new.population,
                            !.costs = new.costs, !.done = TRUE]
    /\ UNCHANGED <<xo, ga, gapc, acs, acspc, tape, clock, tsp, runner, gen>>

InitOps ==
    /\ TournamentInit \/ SuccessionInit
    /\ xo = XoIdle /\ ga = <<>> /\ gapc = <<>> /\ acs = <<>> /\ acspc = <<>>
    /\ tape = <<>> /\ clock = <<>> /\ tsp = <<>>
    /\ runner = <<>> /\ gen = <<>>

NextOps == ApplyTournament \/ ApplyElitist \/ ApplySteadyState

SpecOps == InitOps /\ [][NextOps]_vars

(***************************************************************************)
(* Claims about the selection and succession operators.                    *)
(***************************************************************************)
\* f is x truncated: f <= x < f + 1 (x is not negative)
IsTruncation(f, x) == RLe(RInt(f), x) /\ RLt(x, RInt(f + 1))

\* r is an integer nearest to x: x - 1/2 <= r <= x + 1/2
IsNearest(r, x) == RLe(RSub(x, Half), RInt(r)) /\ RLe(RInt(r), RAdd(x, Half))

\* rate * N of the call
RateProduct == RMul(op.rate, RInt(Len(op.parents)))

TournamentDone == op.name = "tournament" /\ op.done

\* C16: the tournament has k = max(2, int(rate * |population|)) participants:
\* the product truncated to an integer, with a floor of 2, for every
\* population of at least two and every rate in (0, 1].
C16_TournamentSizeTruncates ==
    TournamentDone =>
        /\ Len(op.participants) = op.k
        /\ \E f \in 0..Len(op.parents) : IsTruncation(f, RateProduct) /\ op.k = Max({2, f})

\* a tournament over three individuals at rate 7/8: the product 2.625 gives
\* two participants
C16_Witness ==
    /\ TournamentDone
    /\ Len(op.parents) = 3 /\ op.rate = <<7, 8>>
    /\ op.k = 2

\* C16 as stated: k = max(2, round(rate * |population|)), the product rounded
\* to the nearest integer.
C16_TournamentSizeRounds ==
    TournamentDone =>
        \E r \in 0..Len(op.parents) : IsNearest(r, RateProduct) /\ op.k = Max({2, r})

\* the cost of population slot s in the call
SlotCost(s) == op.parent_costs[s]

\* C17: the k participants of a tournament are k distinct population slots,
\* and the individual returned is a participant whose cost is the least
\* among the participants; a tournament that covers the whole population
\* returns an individual of the least cost of the population.
C17_TournamentWinner ==
    TournamentDone =>
        /\ Cardinality(Range(op.participants)) = op.k
        /\ Range(op.participants) \subseteq DOMAIN op.parents
        /\ \E w \in Range(op.participants) :
               /\ op.winner = op.parents[w]
               /\ \A s \in Range(op.participants) : SlotCost(w) <= SlotCost(s)
        /\ op.k = Len(op.parents) =>
               \E w \in DOMAIN op.parents :
                   /\ op.winner = op.parents[w]
                   /\ \A s \in DOMAIN op.parents : SlotCost(w) <= SlotCost(s)

\* costs [2, 1, 3], the whole population sampled, its first participant not
\* the cheapest: the individual [1] of cost 1 is returned
C17_Witness ==
    /\ TournamentDone
    /\ op.parent_costs = <<2, 1, 3>>
    /\ op.k = 3
    /\ op.participants[1] # 2
    /\ op.winner = <<1>>

\* the cost an individual of the call was handed in with
OwnCost(individual) ==
    IF individual[1] < Len(op.parents)
    THEN op.parent_costs[individual[1] + 1]
    ELSE op.offspring_costs[individual[1] - Len(op.parents) + 1]

\* chosen holds `count` individuals of `group`, none of them costlier than an
\* individual of the group left out
LowestOf(chosen, group, count) ==
    /\ chosen \subseteq Range(group)
    /\ Cardinality(chosen) = count
    /\ \A x \in chosen : \A y \in Range(group) \ chosen : OwnCost(x) <= OwnCost(y)

\* the new population has exactly N individuals, no individual twice: `kept`
\* lowest-cost parents together with the N - kept lowest-cost offspring, and
\* at every slot the cost is the individual's own
SuccessionResult(kept) ==
    LET N == Len(op.parents)
        new == Range(op.population)
    IN  /\ Len(op.population) = N /\ Len(op.costs) = N
        /\ Cardinality(new) = N
        /\ LowestOf(new \cap Range(op.parents), op.parents, kept)
        /\ LowestOf(new \cap Range(op.offspring), op.offspring, N - kept)
        /\ \A s \in 1..N : op.costs[s] = OwnCost(op.population[s])

ElitistDone == op.name = "elitist" /\ op.done

\* C18: ElitistSuccession.replace on N parents and N offspring with elite
\* count e returns exactly N individuals, the e lowest-cost parents together
\* with the N - e lowest-cost offspring, each paired with its own cost.
C18_ElitistReplace == ElitistDone => SuccessionResult(op.k)

\* parent costs [3, 2, 1], offspring costs [3, 1, 2], one elite: the parent
\* [2] of cost 1 is kept and the offspring [4] and [5] of costs 1 and 2 join it
C18_Witness ==
    /\ ElitistDone
    /\ op.parent_costs = <<3, 2, 1>> /\ op.offspring_costs = <<3, 1, 2>>
    /\ op.k = 1
    /\ op.population = << <<2>>, <<4>>, <<5>> >>
    /\ op.costs = <<1, 1, 2>>

SteadyStateDone == op.name = "steady_state" /\ op.done

\* C19: SteadyStateSuccession.replace on N parents and N offspring with
\* replace count r returns exactly N individuals, the N - r lowest-cost
\* parents together with the r lowest-cost offspring, each paired with its
\* own cost.
C19_SteadyStateReplace == SteadyStateDone => SuccessionResult(Len(op.parents) - op.k)

\* parent costs [3, 2, 1], offspring costs [3, 1, 2], one offspring injected:
\* the parents [2] and [1] of costs 1 and 2 stay, the offspring [4] of cost 1
\* replaces the parent of cost 3
C19_Witness ==
    /\ SteadyStateDone
    /\ op.parent_costs = <<3, 2, 1>> /\ op.offspring_costs = <<3, 1, 2>>
    /\ op.k = 1
    /\ op.population = << <<2>>, <<1>>, <<4>> >>
    /\ op.costs = <<1, 2, 1>>

SuccessionDone == ElitistDone \/ SteadyStateDone

\* C20: elite_count and replace_count are max(1, int(rate * N)): the product
\* truncated to an integer, with a floor of 1, for every population size
\* N >= 1 and every rate in (0, 1].  The count is the number of parents an
\* elitist succession keeps and the number of offspring a steady-state
\* succession injects.
C20_SuccessionCountTruncates ==
    SuccessionDone =>
        /\ \E f \in 0..Len(op.parents) : IsTruncation(f, RateProduct) /\ op.k = Max({1, f})
        /\ ElitistDone => Cardinality(Range(op.population) \cap Range(op.parents)) = op.k
        /\ SteadyStateDone => Cardinality(Range(op.population) \cap Range(op.offspring)) = op.k

\* two parents at rate 7/8: the product 1.75 gives a count of 1, one parent
\* kept by the elitist succession
C20_Witness ==
    /\ ElitistDone
    /\ Len(op.parents) = 2 /\ op.rate = <<7, 8>>
    /\ op.k = 1
    /\ Cardinality(Range(op.population) \cap Range(op.parents)) = 1

\* C20 as stated: the counts are max(1, round(rate * N)), the product rounded
\* to the nearest integer.
C20_SuccessionCountRounds ==
    SuccessionDone =>
        \E r \in 0..Len(op.parents) : IsNearest(r, RateProduct) /\ op.k = Max({1, r})

\* the lowest cost of a list of costs
LowestCost(costs) == Min(Range(costs))

\* C21: after a succession on N parents and N offspring with count c
\* (elite_count or replace_count), the lowest cost of the new population is
\* the lowest of all parent and offspring costs whenever c < N.  With c = N
\* an elitist succession keeps the parents only and a steady-state succession
\* the offspring only, and the lowest cost is that of the kept group.
C21_BestOfKeptGroups ==
    SuccessionDone =>
        LET N == Len(op.parents)
        IN  /\ op.k < N =>
                LowestCost(op.costs) = LowestCost(op.parent_costs \o op.offspring_costs)
            /\ (op.k = N /\ ElitistDone) => LowestCost(op.costs) = LowestCost(op.parent_costs)
            /\ (op.k = N /\ SteadyStateDone) =>
                LowestCost(op.costs) = LowestCost(op.offspring_costs)

\* parents of costs [3, 2, 3], offspring of costs [3, 3, 1], rate 1/2: one
\* parent replaced under steady state, and the offspring of cost 1 is the
\* best of the new population
C21_Witness ==
    /\ SteadyStateDone
    /\ op.parent_costs = <<3, 2, 3>> /\ op.offspring_costs = <<3, 3, 1>>
    /\ op.k = 1 /\ op.rate = <<1, 2>>
    /\ LowestCost(op.costs) = 1

\* C21 as stated: for every rate in (0, 1] the lowest cost of the new
\* population is the lowest of all parent and offspring costs.
C21_BestAlwaysSurvives ==
    SuccessionDone =>
        LowestCost(op.costs) = LowestCost(op.parent_costs \o op.offspring_costs)

(***************************************************************************)
(* The mutation operators on their own: one call of mutate(individual)     *)
(* with the pair of indices random.sample drew.                            *)
(***************************************************************************)
MutationNew(name, individual) ==
    [name |-> name, individual |-> individual, i |-> 0, j |-> 0,
     result |-> individual, raised |-> "", done |-> FALSE]

\* a mutation operator and the chromosome handed to it: a permutation of
\* 0..n-1
MutationInit ==
    \E name \in MutationKinds : \E n \in 0..MaxLen : \E individual \in Perms(n) :
        op = MutationNew(name, individual)

\* SwapMutation.mutate: nothing happens below MinGenes genes
ApplySwap ==
    /\ op.name = "swap" /\ ~op.done
    /\ IF Len(op.individual) < MinGenes
       THEN op' = [op EXCEPT !.done = TRUE]
       ELSE \E ij \in IndexPairs(Len(op.individual)) :
                op' = [op EXCEPT !.i = ij[1], !.j = ij[2],
                                 !.result = swap_mutate(op.individual, ij[1], ij[2]),
                                 !.done = TRUE]
    /\ UNCHANGED <<xo, ga, gapc, acs, acspc, tape, clock, tsp, runner, gen>>

\* InsertMutation.mutate: random.sample(range(len), 2) raises ValueError on
\* fewer than two genes
ApplyInsert ==
    /\ op.name = "insert" /\ ~op.done
    /\ IF Len(op.individual) < 2
       THEN op' = [op EXCEPT !.raised = "ValueError", !.done = TRUE]
       ELSE \E ij \in IndexPairs(Len(op.individual)) :
                op' = [op EXCEPT !.i = ij[1], !.j = ij[2],
                                 !.result = insert_mutate(op.individual, ij[1], ij[2]),
                                 !.done = TRUE]
    /\ UNCHANGED <<xo, ga, gapc, acs, acspc, tape, clock, tsp, runner, gen>>

InitMutation ==
    /\ MutationInit
    /\ xo = XoIdle /\ ga = <<>> /\ gapc = <<>> /\ acs = <<>> /\ acspc = <<>>
    /\ tape = <<>> /\ clock = <<>> /\ tsp = <<>>
    /\ runner = <<>> /\ gen = <<>>

NextMutation == ApplySwap \/ ApplyInsert

SpecMutation == InitMutation /\ [][NextMutation]_vars

\* s without its element at index i (counted from 0)
Without(s, i) == SubSeq(s, 1, i) \o SubSeq(s, i + 2, Len(s))

\* a call that mutated: at least two genes, indices i # j drawn
Mutated == op.done /\ op.raised = "" /\ Len(op.individual) >= 2

\* C22: with distinct indices i, j drawn on an individual of at least two
\* genes, SwapMutation exchanges the genes at i and j and leaves every other
\* position as it was; InsertMutation leaves the gene of index i at index j
\* and the other genes in their relative order; both leave a permutation of
\* the same genes that differs from the one they were given.  SwapMutation on
\* fewer than two genes changes nothing.
C22_MutationFrame ==
    /\ (op.name = "swap" /\ Mutated) =>
          /\ op.result[op.i + 1] = op.individual[op.j + 1]
          /\ op.result[op.j + 1] = op.individual[op.i + 1]
          /\ \A k \in DOMAIN op.individual :
                 k \notin {op.i + 1, op.j + 1} => op.result[k] = op.individual[k]
    /\ (op.name = "insert" /\ Mutated) =>
          /\ op.result[op.j + 1] = op.individual[op.i + 1]
          /\ Without(op.result, op.j) = Without(op.individual, op.i)
    /\ (op.name \in MutationKinds /\ Mutated) =>
          /\ op.i # op.j
          /\ Len(op.result) = Len(op.individual)
          /\ Range(op.result) = Range(op.individual)
          /\ op.result # op.individual
    /\ (op.name = "swap" /\ op.done /\ Len(op.individual) < MinGenes) =>
          op.result = op.individual /\ op.raised = ""

\* the gene 0 of [0, 1, 2, 3] moved from index 0 to index 2
C22_Witness ==
    /\ op.name = "insert" /\ Mutated
    /\ op.individual = <<0, 1, 2, 3>> /\ op.i = 0 /\ op.j = 2
    /\ op.result = <<1, 2, 0, 3>>

(***************************************************************************)
(* Claims about the pheromone updates of the ACS engine.                   *)
(***************************************************************************)
\* four cities on a square: sides of distance 1, diagonals of distance 2
ProblemFour ==
    [n |-> 4, dist |-> << <<0, 1, 2, 1>>, <<1, 0, 1, 2>>, <<2, 1, 0, 1>>, <<1, 2, 1, 0>> >>]

\* one ACS engine on one city or on the square, built for a single time unit
InitACSFour ==
    /\ \E cfg \in [problem : {ProblemOne, ProblemFour}, num_ants : {1, 2}, alpha : {1},
                    beta : {1}, rho : {Half}, phi : {Half}, q0 : {Half}, max_time : {1}] :
           acs = <<ACSNew(cfg)>>
    /\ acspc = <<"init">>
    /\ xo = XoIdle /\ ga = <<>> /\ gapc = <<>> /\ tape = <<>> /\ clock = <<1>>
    /\ tsp = <<>> /\ op = <<>>
    /\ runner = <<>> /\ gen = <<>>

SpecACSFour == InitACSFour /\ [][NextACS]_vars

\* the edges zip(route, route[1:] + [route[0]]) walks, the closing one included
CyclicEdges(route) == {<<route[k], route[(k % Len(route)) + 1]>> : k \in 1..Len(route)}

\* the entries (x, y), counted from 0, in which two matrices differ
ChangedEntries(before, after) ==
    {xy \in (0..(Len(before) - 1)) \X (0..(Len(before) - 1)) :
        after[xy[1] + 1][xy[2] + 1] # before[xy[1] + 1][xy[2] + 1]}

\* (1 - rho) * old + rho * (1 / cost)
Deposited(old, rho, cost) == RAdd(RMul(RSub(RInt(1), rho), old), RMul(rho, RNorm(1, cost)))

\* the step of engine i from a to b is the global update of the tour `route`:
\* nothing but the two entries of each of its cyclic edges changes, both
\* entries of an edge end equal, and on three or more cities, where no edge
\* is walked twice, they hold the value deposited on the entry (a, b)
GlobalUpdateOf(a, b, route, completed) ==
    LET edges == CyclicEdges(route)
        cost == evaluate(a.cfg.problem, route)
    IN  /\ \A xy \in ChangedEntries(a.pheromone, b.pheromone) :
              xy \in edges \/ <<xy[2], xy[1]>> \in edges
        /\ completed =>
              \A e \in edges :
                  /\ b.pheromone[e[1] + 1][e[2] + 1] = b.pheromone[e[2] + 1][e[1] + 1]
                  /\ Len(route) >= 3 =>
                        b.pheromone[e[1] + 1][e[2] + 1] =
                            Deposited(a.pheromone[e[1] + 1][e[2] + 1], a.cfg.rho, cost)

IterationFrame(i) ==
    LET a == acs[i]
        b == acs'[i]
    IN  /\ (acspc[i] = "global" /\ acspc'[i] # "global") =>
              /\ Len(a.routes) = a.cfg.num_ants
              /\ Len(a.costs) = a.cfg.num_ants
              /\ b.heuristic = a.heuristic
              /\ \E k \in DOMAIN a.routes :
                    /\ \A m \in DOMAIN a.costs : a.costs[k] <= a.costs[m]
                    /\ a.costs[k] = evaluate(a.cfg.problem, a.routes[k])
                    /\ GlobalUpdateOf(a, b, a.routes[k], acspc'[i] = "check")
        /\ acspc[i] \in {"check", "ant"} => b.pheromone = a.pheromone
        /\ acspc[i] = "step" =>
              /\ Len(a.routes) < a.cfg.num_ants
              /\ \A xy \in ChangedEntries(a.pheromone, b.pheromone) : xy[1] = a.current
              /\ Cardinality(ChangedEntries(a.pheromone, b.pheromone)) <= 1
        /\ acspc[i] \in {"check", "ant", "step", "global"} => b.heuristic = a.heuristic

\* C23: in every ACS iteration the global pheromone update happens once, in
\* the step that follows the last of the num_ants ants, on a tour of least
\* cost among the tours of this iteration; it changes only the entries (a, b)
\* and (b, a) of the cyclic edges of that tour, the closing edge included, and
\* leaves every other pheromone entry and the heuristic matrix as they were.
\* The steps before it change at most the one entry of a local update.
C23_GlobalUpdateFrame == [][\A i \in DOMAIN acs : IterationFrame(i)]_vars

\* one ant has walked the square 0-1-2-3 at cost 4: the four edges of the
\* tour, the closing edge (3, 0) among them, went from 1 to 1/2 + 1/8 in both
\* directions, the diagonals (0, 2) and (1, 3) stayed at 1
C23_Witness ==
    \E i \in DOMAIN acs :
        /\ acspc[i] = "check" /\ Len(acs[i].history) = 1
        /\ acs[i].cfg.num_ants = 1 /\ acs[i].cfg.problem = ProblemFour
        /\ acs[i].routes = << <<0, 1, 2, 3>> >>
        /\ acs[i].costs = <<4>>
        /\ acs[i].pheromone[4][1] = <<5, 8>> /\ acs[i].pheromone[1][4] = <<5, 8>>
        /\ acs[i].pheromone[1][2] = <<5, 8>> /\ acs[i].pheromone[3][2] = <<5, 8>>
        /\ acs[i].pheromone[1][3] = <<1, 1>> /\ acs[i].pheromone[4][2] = <<1, 1>>

(***************************************************************************)
(* The experiment runner (src/src/core/experiment_runner.py).  A           *)
(* configuration is its number of runs; problem and algorithm construction,*)
(* algo.run() and the collector are calls that return or raise an          *)
(* Exception.  `log` records what was attempted, in order.                 *)
(***************************************************************************)
MaxConfigs == 3

MaxRuns == 2

RunnerNew(configs) ==
    [configs |-> configs, pc |-> "init", cfg |-> 0, run_id |-> 0, log |-> <<>>]

\* for cfg in configs: on to the next configuration, or out of the loop
NextConfig(r) ==
    IF r.cfg = Len(r.configs)
    THEN [r EXCEPT !.pc = "returned", !.run_id = 0]
    ELSE [r EXCEPT !.pc = "single", !.cfg = @ + 1, !.run_id = 0]

\* an exception that leaves the loop and run_all
CaughtNot(r) == [r EXCEPT !.pc = "raised", !.log = Append(@, <<"error", r.cfg>>)]

\* except Exception as e: logger.error(...), and the loop goes on
Caught(r) == NextConfig([r EXCEPT !.log = Append(@, <<"error", r.cfg>>)])

\* run_all up to its loop: an empty list is a warning and a return
RunAll ==
    /\ runner.pc = "init"
    /\ runner' = IF runner.configs = <<>> THEN [runner EXCEPT !.pc = "returned"]
                 ELSE [runner EXCEPT !.pc = "single", !.cfg = 1]
    /\ UNCHANGED <<xo, ga, gapc, acs, acspc, tape, clock, tsp, op, gen>>

\* _run_single up to its loop: the problem is built, or the name is rejected
\* or the factory raises
RunSingle ==
    /\ runner.pc = "single"
    /\ LET r == [runner EXCEPT !.log = Append(@, <<"single", runner.cfg>>)]
       IN  \/ runner' = Caught(r)
           \/ runner' = [r EXCEPT !.pc = IF r.configs[r.cfg].runs >= 1 THEN "run"
                                         ELSE "finalize",
                                  !.run_id = 1]
    /\ UNCHANGED <<xo, ga, gapc, acs, acspc, tape, clock, tsp, op, gen>>

\* one pass of for run_id in range(1, cfg.runs + 1): the algorithm is built
\* and run and its history collected, or one of the calls raises
RunOnce ==
    /\ runner.pc = "run"
    /\ LET r == [runner EXCEPT !.log = Append(@, <<"run", runner.cfg, runner.run_id>>)]
       IN  \/ runner' = Caught(r)
           \/ runner' = [r EXCEPT !.pc = IF r.run_id = r.configs[r.cfg].runs
                                         THEN "finalize" ELSE "run",
                                  !.run_id = @ + 1]
    /\ UNCHANGED <<xo, ga, gapc, acs, acspc, tape, clock, tsp, op, gen>>

\* the end of _run_single: optimal_value() and finalize_config, which may
\* raise as well
RunFinalize ==
    /\ runner.pc = "finalize"
    /\ \/ runner' = Caught(runner)
       \/ runner' = NextConfig([runner EXCEPT !.log = Append(@, <<"finalize", runner.cfg>>)])
    /\ UNCHANGED <<xo, ga, gapc, acs, acspc, tape, clock, tsp, op, gen>>

InitRunner ==
    /\ \E n \in 0..MaxConfigs : \E configs \in [1..n -> [runs : 0..MaxRuns]] :
           runner = RunnerNew(configs)
    /\ xo = XoIdle /\ ga = <<>> /\ gapc = <<>> /\ acs = <<>> /\ acspc = <<>>
    /\ tape = <<>> /\ clock = <<>> /\ tsp = <<>> /\ op = <<>> /\ gen = <<>>

NextRunner == RunAll \/ RunSingle \/ RunOnce \/ RunFinalize

SpecRunner == InitRunner /\ [][NextRunner]_vars

\* the entries of the log of one kind
RECURSIVE Entries(_, _)
Entries(log, kind) ==
    IF log = <<>> THEN <<>>
    ELSE LET rest == Entries(SubSeq(log, 1, Len(log) - 1), kind)
             last == log[Len(log)]
         IN  IF last[1] = kind THEN Append(rest, last) ELSE rest

\* C24: run_all attempts every configuration once, in the order given: the
\* configurations entered so far are 1, 2, ..., each once, whatever raised in
\* the ones before; no exception leaves run_all; when run_all returns every
\* configuration has been entered; and no run of a configuration is started
\* twice.
C24_EveryConfigOnce ==
    LET singles == Entries(runner.log, "single")
        runs == Entries(runner.log, "run")
    IN  /\ runner.pc # "raised"
        /\ singles = [k \in 1..Len(singles) |-> <<"single", k>>]
        /\ runner.pc \in {"run", "finalize"} => Len(singles) = runner.cfg
        /\ runner.pc = "returned" => Len(singles) = Len(runner.configs)
        /\ \A m, n \in DOMAIN runs : runs[m] = runs[n] => m = n
        /\ \A m \in DOMAIN runs : runs[m][3] <= runner.configs[runs[m][2]].runs

\* three configurations: the first raised in its second run, the second
\* while its problem was built, the third ran both runs and was finalised
C24_Witness ==
    /\ runner.pc = "returned"
    /\ runner.configs = <<[runs |-> 2], [runs |-> 1], [runs |-> 2]>>
    /\ runner.log = << <<"single", 1>>, <<"run", 1, 1>>, <<"run", 1, 2>>, <<"error", 1>>,
                       <<"single", 2>>, <<"error", 2>>,
                       <<"single", 3>>, <<"run", 3, 1>>, <<"run", 3, 2>>, <<"finalize", 3>> >>

\* C25: a local pheromone update never increases the pheromone of the edge
\* it is applied to: in every step of _build_route, from every pheromone
\* state a run reaches, the entry written ends no greater than it was (no
\* other entry changes in such a step).
C25_LocalUpdateNeverIncreases ==
    [][\A i \in DOMAIN acs :
          acspc[i] = "step" =>
              \A x, y \in DOMAIN acs[i].pheromone :
                  RLe(acs'[i].pheromone[x][y], acs[i].pheromone[x][y])]_vars

(***************************************************************************)
(* Claims about the mapping chase of PMX.                                  *)
(***************************************************************************)
\* the child when the for i in range(a, b) loop of pmx reaches position i
PMXBefore(parent1, parent2, a, b, i) ==
    PMXLoop(parent1, parent2,
            [k \in 1..Len(parent1) |-> IF a < k /\ k <= b THEN parent1[k] ELSE NoneVal],
            a + 1, i - 1)

\* the slots idx the while True loop of pmx looks at from pos on, the slot it
\* stops at last; `fuel` passes at most
RECURSIVE PMXTrail(_, _, _, _, _)
PMXTrail(parent1, parent2, child, pos, fuel) ==
    LET idx == Index(parent2, parent1[pos])
    IN  IF child[idx] = NoneVal \/ fuel = 0 THEN <<idx>>
        ELSE <<idx>> \o PMXTrail(parent1, parent2, child, idx, fuel - 1)

\* the positions of p2[a:b] whose value the loop has to place
PMXToResolve(parent1, parent2, a, b) ==
    {i \in (a + 1)..b : parent2[i] \notin Range(PMXBefore(parent1, parent2, a, b, i))}

\* every value to resolve is placed after a chase that looks at no slot
\* twice, in a slot that was empty and lies outside the cut; what the child
\* held before stays, and the value is there in the child returned
PMXResolved(parent1, parent2, a, b, result) ==
    \A i \in PMXToResolve(parent1, parent2, a, b) :
        LET child == PMXBefore(parent1, parent2, a, b, i)
            after == PMXBefore(parent1, parent2, a, b, i + 1)
            trail == PMXTrail(parent1, parent2, child, i, Len(parent1))
            slot == trail[Len(trail)]
        IN  /\ Cardinality(Range(trail)) = Len(trail)
            /\ child[slot] = NoneVal
            /\ ~(a < slot /\ slot <= b)
            /\ after[slot] = parent2[i]
            /\ \A k \in DOMAIN child : child[k] # NoneVal => after[k] = child[k]
            /\ result[slot] = parent2[i]

PMXDone == xo.op = "pmx" /\ xo.done

\* C26: for two permutations of the same elements, of length >= 2, and a
\* cut a < b, the mapping chase of PMX ends for every value of p2[a:b] it has
\* to resolve; the value goes to a slot that was empty and lies outside
\* [a, b), and no value placed before is overwritten.  For both children.
C26_PMXChaseTerminates ==
    PMXDone =>
        /\ PMXResolved(xo.p1, xo.p2, xo.a, xo.b, xo.c1)
        /\ PMXResolved(xo.p2, xo.p1, xo.a, xo.b, xo.c2)

\* parents [1, 2, 0] and [0, 1, 2] cut at [0, 2): the child starts as
\* [1, 2, None]; the value 0 of p2[0] is chased over the occupied slot 1 to
\* the empty slot 2
C26_Witness ==
    /\ PMXDone
    /\ xo.p1 = <<1, 2, 0>> /\ xo.p2 = <<0, 1, 2>> /\ xo.a = 0 /\ xo.b = 2
    /\ xo.c1 = <<1, 2, 0>>
    /\ \E i \in PMXToResolve(xo.p1, xo.p2, xo.a, xo.b) :
          Len(PMXTrail(xo.p1, xo.p2, PMXBefore(xo.p1, xo.p2, xo.a, xo.b, i), i,
                       Len(xo.p1))) >= 2

(***************************************************************************)
(* The generations of GeneticAlgorithm.run with the list objects they      *)
(* handle.  An individual is a reference into `heap`, the sequence of the  *)
(* live list objects; population, offspring, p1, p2, c1 and c2 hold        *)
(* references, so that two names of one list are told from two equal       *)
(* lists.  The coins of the engine and the draws of the operators are      *)
(* free choices.                                                           *)
(***************************************************************************)
MaxGenerations == 2

\* every crossover with every mutation, on two cities with an odd population
\* and on three cities with an even one; selection and succession alternate
GenConfigs ==
    {c \in [problem : {ProblemTwo, ProblemAsym}, selection : Selections,
            crossover : CrossoverKinds, mutation : MutationKinds, succession : Successions,
            population_size : {2, 3}] :
        LET no == CrossoverNo(c.crossover) + (IF c.mutation = "swap" THEN 0 ELSE 1)
        IN  /\ (c.problem = ProblemTwo) <=> (c.population_size = 3)
            /\ SelectionNo(c.selection.name) = no % 3
            /\ (c.succession.name = "elitist") <=> (no % 2 = 0)}

\* run() after _initialize_population and _evaluate_population: one list
\* object per slot
GenNew(cfg, individuals) ==
    [cfg |-> cfg, heap |-> individuals,
     population |-> [k \in DOMAIN individuals |-> k],
     costs |-> evaluate_population(cfg.problem, individuals),
     before |-> individuals, offspring |-> <<>>,
     p1 |-> 0, p2 |-> 0, c1 |-> 0, c2 |-> 0,
     generation |-> 0, pc |-> "select"]

\* the lists behind a list of references
Deref(heap, refs) == [k \in DOMAIN refs |-> heap[refs[k]]]

\* c1, c2 = p1, p2: the children are the parents themselves
copy_childrenShared(g) == [g EXCEPT !.c1 = g.p1, !.c2 = g.p2]

\* c1, c2 = p1[:], p2[:]: two new lists
copy_children(g) ==
    [g EXCEPT !.heap = g.heap \o <<g.heap[g.p1], g.heap[g.p2]>>,
              !.c1 = Len(g.heap) + 1, !.c2 = Len(g.heap) + 2]

\* c1, c2 = self.crossover.crossover(p1, p2): every operator builds its two
\* children as new lists
crossover_children(g, cc) ==
    [g EXCEPT !.heap = g.heap \o <<cc[1], cc[2]>>,
              !.c1 = Len(g.heap) + 1, !.c2 = Len(g.heap) + 2]

\* the list objects still referenced by the population keep their order on
\* the heap, the others are dropped
Compact(g, population) ==
    LET live == SortedList(Range(population))
    IN  [heap |-> Deref(g.heap, live),
         population |-> [k \in DOMAIN population |-> Index(live, population[k])]]

\* p1 = select(...); p2 = select(...): both return a list of the population
GenSelect ==
    /\ gen.pc = "select"
    /\ \E s1 \in Select(gen.cfg.selection, gen.costs) :
         \E s2 \in Select(gen.cfg.selection, gen.costs) :
           gen' = [gen EXCEPT !.p1 = gen.population[s1], !.p2 = gen.population[s2],
                              !.pc = "crossover"]
    /\ UNCHANGED <<xo, ga, gapc, acs, acspc, tape, clock, tsp, op, runner>>

\* if self._random() < self.crossover_rate: crossover, else copies
GenCrossover ==
    /\ gen.pc = "crossover"
    /\ \/ \E cc \in Crossover(gen.cfg.crossover, gen.heap[gen.p1], gen.heap[gen.p2]) :
            gen' = [crossover_children(gen, cc) EXCEPT !.pc = "mutate1"]
       \/ gen' = [copy_children(gen) EXCEPT !.pc = "mutate1"]
    /\ UNCHANGED <<xo, ga, gapc, acs, acspc, tape, clock, tsp, op, runner>>

\* if self._random() < self.mutation_rate: self.mutation.mutate(c1), in place
GenMutateFirst ==
    /\ gen.pc = "mutate1"
    /\ \E c \in Mutate(gen.cfg.mutation, gen.heap[gen.c1]) \cup {gen.heap[gen.c1]} :
         gen' = [gen EXCEPT !.heap[gen.c1] = c, !.pc = "mutate2"]
    /\ UNCHANGED <<xo, ga, gapc, acs, acspc, tape, clock, tsp, op, runner>>

\* the second mutation, offspring.extend([c1, c2]) and the test of
\* while len(offspring) < population_size
GenMutateSecond ==
    /\ gen.pc = "mutate2"
    /\ \E c \in Mutate(gen.cfg.mutation, gen.heap[gen.c2]) \cup {gen.heap[gen.c2]} :
         LET offspring == gen.offspring \o <<gen.c1, gen.c2>>
         IN  gen' = [gen EXCEPT !.heap[gen.c2] = c, !.offspring = offspring,
                                !.p1 = 0, !.p2 = 0, !.c1 = 0, !.c2 = 0,
                                !.pc = IF Len(offspring) < gen.cfg.population_size
                                       THEN "select" ELSE "replace"]
    /\ UNCHANGED <<xo, ga, gapc, acs, acspc, tape, clock, tsp, op, runner>>

\* offspring_costs = _evaluate_population(offspring); population, costs =
\* succession.replace(...); the next pass of while True starts with an empty
\* offspring list
GenReplace ==
    /\ gen.pc = "replace"
    /\ gen.generation < MaxGenerations
    /\ LET offspring_costs == evaluate_population(gen.cfg.problem,
                                                  Deref(gen.heap, gen.offspring))
           new == Replace(gen.cfg.succession, gen.population, gen.offspring,
                          gen.costs, offspring_costs)
           kept == Compact(gen, new.population)
       IN  gen' = [gen EXCEPT !.heap = kept.heap, !.population = kept.population,
                              !.costs = new.costs,
                              !.before = Deref(kept.heap, kept.population),
                              !.offspring = <<>>,
                              !.generation = @ + 1, !.pc = "select"]
    /\ UNCHANGED <<xo, ga, gapc, acs, acspc, tape, clock, tsp, op, runner>>

InitGeneration ==
    /\ \E cfg \in GenConfigs :
         \E individuals \in [1..cfg.population_size -> Perms(cfg.problem.n)] :
           gen = GenNew(cfg, individuals)
    /\ xo = XoIdle /\ ga = <<>> /\ gapc = <<>> /\ acs = <<>> /\ acspc = <<>>
    /\ tape = <<>> /\ clock = <<>> /\ tsp = <<>> /\ op = <<>> /\ runner = <<>>

NextGeneration ==
    GenSelect \/ GenCrossover \/ GenMutateFirst \/ GenMutateSecond \/ GenReplace

SpecGeneration == InitGeneration /\ [][NextGeneration]_vars

\* a generation starts: the offspring list is empty, nothing is selected yet
GenerationStarts == gen.pc = "select" /\ gen.offspring = <<>>

\* C27: at the start of every GA generation costs[i] is the cost of
\* population[i] for every slot i: succession hands each individual over with
\* its own cost, and no individual has changed since it was evaluated.
C27_CostsMatchPopulation ==
    GenerationStarts =>
        /\ Len(gen.population) = gen.cfg.population_size
        /\ Len(gen.costs) = Len(gen.population)
        /\ \A i \in DOMAIN gen.population :
              gen.costs[i] = evaluate(gen.cfg.problem, gen.heap[gen.population[i]])

\* the second generation starts with a population of costs 3 and 6 on the
\* asymmetric instance
C27_Witness ==
    /\ GenerationStarts /\ gen.generation = 1
    /\ gen.cfg.problem = ProblemAsym
    /\ gen.costs = <<3, 6>>
    /\ Deref(gen.heap, gen.population) = << <<0, 1, 2>>, <<0, 2, 1>> >>


\* the children in the making and the offspring collected so far
Children ==
    gen.offspring \o (IF gen.c1 = 0 THEN <<>> ELSE <<gen.c1, gen.c2>>)

\* C30: while the offspring of a generation are produced (selection,
\* crossover or the copies made in its place, mutation of the children in
\* place) every individual of the parent population stays as it was when the
\* generation started, and no list object is two offspring or an offspring
\* and a parent: no two offspring slots hold the same list, and none holds a
\* list of the population.
C30_OffspringAreFreshLists ==
    /\ Deref(gen.heap, gen.population) = gen.before
    /\ \A m, n \in DOMAIN Children : Children[m] = Children[n] => m = n
    /\ Range(Children) \cap Range(gen.population) = {}
    /\ \A m, n \in DOMAIN gen.population : gen.population[m] = gen.population[n] => m = n

\* the same parent [0, 1, 2] selected twice, crossover skipped: two copies,
\* the first mutated to [1, 0, 2], the second and the parent as they were
C30_Witness ==
    /\ gen.pc = "mutate2"
    /\ gen.p1 = gen.p2 /\ gen.heap[gen.p1] = <<0, 1, 2>>
    /\ gen.c1 # gen.c2
    /\ gen.heap[gen.c1] = <<1, 0, 2>> /\ gen.heap[gen.c2] = <<0, 1, 2>>


\* C28: the distance matrix of every built TSPProblem has get_dimension()
\* rows of get_dimension() entries each, and evaluate returns a cost for
\* every permutation of 0..get_dimension()-1; also over a file whose
\* coordinate section lost records or whose weight stream is shorter than
\* DIMENSION requires.
C28_MatrixHasDimension ==
    tsp.problem =>
        /\ Len(InstanceMatrix(tsp)) = tsp.instance.dimension
        /\ \A i \in DOMAIN InstanceMatrix(tsp) :
              Len(InstanceMatrix(tsp)[i]) = tsp.instance.dimension
        /\ tsp.last = "evaluate" => tsp.raised = "None" /\ tsp.returned # <<>>


\* C29: on an instance of non-negative integer distances every ACS iteration
\* completes its global pheromone update without an error, also when the
\* iteration-best tour costs 0, and the iteration's sample is appended to
\* History: the step after the last ant leads back to the head of the loop
\* with one sample more.
C29_GlobalUpdateCompletes ==
    [][\A i \in DOMAIN acs :
          acspc[i] = "global" =>
              \/ acspc'[i] = "global" /\ acs'[i] = acs[i]
              \/ /\ acspc'[i] = "check"
                 /\ Len(acs'[i].history) = Len(acs[i].history) + 1]_vars

====
